---------------------------- MODULE Spec2Model ----------------------------
(***************************************************************************)
(* Provider abstraction and build orchestration of logs-streaming-agent.   *)
(*                                                                         *)
(* Several state machines share this module, each with its own            *)
(* specification:                                                          *)
(*   SpecStream   JenkinsProvider.streamLogs polling a remote build log    *)
(*   SpecStage    the stage relay (checkStages) of handleDeployService     *)
(*   SpecScenario the stage relay against a scripted list of snapshots     *)
(*   SpecRun      processActionMessage -> handleBuildAction ->             *)
(*                BlueprintHandler.createEntity for one action message     *)
(*   SpecStatus   successive getBuildStatus calls for one buildId          *)
(*   SpecTrigger  one triggerBuild call of either provider                 *)
(*   SpecRelay    the log relay: onLogChunk and the remainder flush        *)
(*   SpecRegistry PluginRegistry: register, unregister and the lookups     *)
(*   SpecReconnect one reconnect call of PortKafkaConsumer                 *)
(*   SpecConn     start, shutdown, the CRASH handler and reconnect         *)
(*   SpecWebhook  one validateWebhook call                                 *)
(*   SpecBatch    CircleCIProvider.streamLogs over a workflow's jobs       *)
(*   SpecToken    overlapping getAccessToken calls                         *)
(*   SpecCall     the parameter map handleBuildAction gives triggerBuild   *)
(*   SpecClassify one finished build classified by poll and by webhook     *)
(*   SpecCrash    CRASH events and the reconnect sequences they start      *)
(*   SpecFleet    concurrent triggerBuild calls on one JenkinsProvider     *)
(*   SpecTasks    the webhook server's handleWebhook and activeTasks       *)
(*   SpecInbox    eachMessage over a batch of messages, with log flushes   *)
(* The variables of the machines a specification does not run keep their   *)
(* initial values.                                                         *)
(***************************************************************************)
EXTENDS Naturals, Sequences, FiniteSets, Bags

VARIABLES
  \* ---- streamLogs (JenkinsProvider) ----
  start,              \* let start: offset of the next progressiveText request
  isBuilding,         \* let isBuilding: the while condition
  consecutiveErrors,  \* let consecutiveErrors
  streamState,        \* "polling" | "resolved" | "rejected": the promise of streamLogs
  streamError,        \* message of the Error streamLogs rejected with
  chunks,             \* in-order concatenation of the chunks passed to onLogChunk
  pollHistory,        \* outcome of every request issued: "ok" | "fail"
  lastMore,           \* x-more-data of the latest successful poll
  lastPoll,           \* offset requested by the latest poll, x-text-size it got
  remoteLog,          \* console text of the build on the remote, one line per element
  remoteDone,         \* the remote has written the whole log
  \* ---- stage relay (handleDeployService) ----
  seenStages,         \* const seenStages = new Set()
  checks,             \* bag of the checkStages invocations in flight
  started,            \* number of checkStages invocations started so far
  stageReports,       \* per (name, status): the updateActionRun calls of the relay
  relayPc,            \* "first" | "interval" | "cleared" | "terminal": position of the orchestrator
  stageLog,           \* transitions seen in polled snapshots, transitions the sink accepted
  scenario,           \* a scripted remote: its snapshots and how many it has returned
  \* ---- one action message (consumer.ts, build-handler.ts, blueprint-handler.ts) ----
  pc,                 \* position in processActionMessage / handleBuildAction / createEntity
  props,              \* message.properties
  registry,           \* pluginRegistry.providers: names in insertion order
  autoCreate,         \* process.env.AUTO_CREATE_ENTITIES === 'true'
  actionKind,         \* "build" when action.identifier includes 'build' or 'deploy'
  sinkCalls,          \* every updateActionRun / addActionRunLog call, in order
  providerCalls,      \* every call made on the resolved CI provider, in order
  caught,             \* the value in flight: thrown and not yet handled
  upsertError,        \* the value the entity upsert failed with, or NoError
  buildStatus,        \* BuildStatusInfo of the final getBuildStatus call
  hbaResult,          \* "none" | "resolved" | "rejected": the promise of handleBuildAction
  hbaError,           \* the value handleBuildAction rejected with
  \* ---- successive getBuildStatus calls for one buildId ----
  statusProvider,     \* name of the provider the calls are made on
  statusCalls,        \* what each call returned, in order
  \* ---- one triggerBuild call ----
  trig,               \* provider, parameters, position, requests made and outcome
  \* ---- log relay of one orchestration ----
  relay,              \* logBuffer, chunks delivered, messages sent, flushes in flight
  \* ---- PluginRegistry ----
  reg,                \* the providers map and the outcome of the latest register call
  \* ---- PortKafkaConsumer connection: start, shutdown, reconnect ----
  conn,               \* isConnected, isShuttingDown, the calls in progress, the process
  \* ---- CircleCIProvider.validateWebhook ----
  hook,               \* webhookSecret, the request checked and what the call returned
  \* ---- CircleCIProvider.streamLogs ----
  batch,              \* the workflow's jobs, requests made and chunks emitted
  \* ---- PortKafkaConsumer.getAccessToken ----
  tok,                \* accessToken, tokenExpiry, the clock and the calls in flight
  \* ---- the triggerBuild argument of handleBuildAction ----
  call,               \* runId, message.properties and the parameter map passed
  \* ---- one finished Jenkins build seen by getBuildStatus and by the webhook path ----
  classify,           \* the build document and the statuses the two paths gave it
  \* ---- the consumer's eachMessage handler over a batch of messages ----
  inbox,              \* messages, the handler's position, promises left unhandled
  \* ---- concurrent triggerBuild calls on one JenkinsProvider ----
  fleet,              \* the job's lastBuild, its queue and each call's position
  \* ---- CRASH events and the reconnect sequences they start ----
  recon,              \* the sequences in progress and the attempts made
  \* ---- the webhook server's activeTasks ----
  tasks               \* activeTasks, the monitoring tasks running, streams started

streamVars == <<start, isBuilding, consecutiveErrors, streamState, streamError,
                chunks, pollHistory, lastMore, lastPoll, remoteLog, remoteDone>>
stageVars  == <<seenStages, checks, started, stageReports, relayPc, scenario,
                stageLog>>
runVars    == <<pc, props, registry, autoCreate, actionKind, sinkCalls,
                providerCalls, caught, upsertError, buildStatus, hbaResult, hbaError>>
\* The variables of SpecStatus, SpecTrigger and SpecRelay.
statusVars == <<statusProvider, statusCalls, trig, relay>>
\* The variables of the registry, connection, webhook, batch-log, token and
\* parameter machines.
\* The variables of the classification, message-batch, concurrent-trigger,
\* crash and webhook-task machines.
taskVars   == <<classify, inbox, fleet, recon, tasks>>
serviceVars == <<reg, conn, hook, batch, tok, call, taskVars>>
vars       == <<streamVars, stageVars, runVars, statusVars, serviceVars>>

\* Bounds of the model.
MaxLog    == 3   \* lines the remote log may grow to
MaxPolls  == 7   \* progressiveText requests one streamLogs call may issue
MaxChecks == 3   \* checkStages invocations of one run
MaxStages == 2   \* stages in one snapshot
MaxFlush  == 1   \* log flushes made by onLogChunk during one stream
MaxStatusCalls == 3  \* getBuildStatus calls made for one buildId
MaxBuildNumber == 11 \* largest build number the remote may hold
MaxChunks == 3       \* chunks one streamLogs call delivers
MaxRegistryCalls == 4 \* register and unregister calls made on one registry
MaxRetries == 5      \* largest retries argument of a reconnect call
MaxCrashes == 1      \* CRASH events of one consumer
MaxJobs == 3         \* jobs of one workflow
MaxTokenCalls == 3   \* getAccessToken calls that may overlap
MaxClock == 4        \* clock ticks followed
MaxCrashEvents == 2  \* CRASH events the consumer emits
MaxTriggers == 3     \* concurrent triggerBuild calls on one provider
MaxWebhooks == 4     \* webhooks the server receives
MaxMessages == 2     \* messages the consumer is given

\* A string-valued header or property that is not present (undefined).
Absent   == "<absent>"
\* A header whose value is rendered as a sequence of characters and that is
\* not present or empty: both are falsy in the source.
NoHeader == <<>>
\* No message.
NoError  == <<>>

Last(s) == s[Len(s)]

RECURSIVE SeqToSet(_)
SeqToSet(s) == IF s = <<>> THEN {} ELSE {Head(s)} \cup SeqToSet(Tail(s))

\* s contains the token x.
Contains(s, x) == \E i \in 1..Len(s) : s[i] = x

(***************************************************************************)
(* Decimal rendering and parsing of the x-text-size header.                *)
(***************************************************************************)
Digits == <<"0", "1", "2", "3", "4", "5", "6", "7", "8", "9">>

RECURSIVE ToDecimal(_)
ToDecimal(n) ==
  IF n < 10 THEN <<Digits[n + 1]>>
  ELSE ToDecimal(n \div 10) \o <<Digits[(n % 10) + 1]>>

DigitValue(d) == (CHOOSE i \in 1..10 : Digits[i] = d) - 1

RECURSIVE parseInt(_)
parseInt(s) ==
  IF Len(s) = 1 THEN DigitValue(s[1])
  ELSE 10 * parseInt(SubSeq(s, 1, Len(s) - 1)) + DigitValue(Last(s))

(***************************************************************************)
(* JenkinsProvider.streamLogs                                              *)
(***************************************************************************)
maxConsecutiveErrors == 5

\* The remote's answer to GET logText/progressiveText?start=s: the text from
\* offset s on.
ProgressiveText(s) ==
  IF s >= Len(remoteLog) THEN <<>> ELSE SubSeq(remoteLog, s + 1, Len(remoteLog))

\* GET consoleText.
getCompleteLogs == remoteLog

\* The x-more-data values a response may carry: 'true' while the remote is
\* still writing; once it is done the header is 'false' or left out.
MoreDataHeaders == IF remoteDone THEN {"false", Absent} ELSE {"true"}

\* The x-text-size values a response may carry: the size of the log, or no
\* header at all.
TextSizeHeaders == {ToDecimal(Len(remoteLog)), NoHeader}

\* isBuilding = moreData === 'true'
StillBuilding_AbsentContinues(moreData) == moreData # "false"
StillBuilding(moreData) == moreData = "true"

\* if (nextStart) start = parseInt(nextStart, 10)
NextStart_AddsToOffset(nextStart, cur) ==
  IF nextStart # NoHeader THEN cur + parseInt(nextStart) ELSE cur
NextStart(nextStart, cur) == IF nextStart # NoHeader THEN parseInt(nextStart) ELSE cur

\* if (consecutiveErrors >= maxConsecutiveErrors) throw
Exhausted_OffByOne(n) == n > maxConsecutiveErrors
Exhausted(n) == n >= maxConsecutiveErrors

StreamFailedMessage ==
  <<"Failed to stream logs after ">> \o ToDecimal(maxConsecutiveErrors) \o <<" attempts">>

StreamInit ==
  /\ start = 0
  /\ isBuilding = TRUE
  /\ consecutiveErrors = 0
  /\ streamState = "polling"
  /\ streamError = NoError
  /\ chunks = <<>>
  /\ pollHistory = <<>>
  /\ lastMore = "<no poll>"
  /\ lastPoll = [start |-> 0, size |-> NoHeader]
  /\ remoteLog = <<>>
  /\ remoteDone = FALSE

\* The remote build writes one more line of console text.
RemoteAppend ==
  /\ ~remoteDone
  /\ Len(remoteLog) < MaxLog
  /\ remoteLog' = Append(remoteLog, Len(remoteLog) + 1)
  /\ UNCHANGED <<start, isBuilding, consecutiveErrors, streamState, streamError,
                 chunks, pollHistory, lastMore, lastPoll, remoteDone, stageVars, runVars, statusVars, serviceVars>>

\* The remote build finishes writing its log.
RemoteFinish ==
  /\ ~remoteDone
  /\ remoteDone' = TRUE
  /\ UNCHANGED <<start, isBuilding, consecutiveErrors, streamState, streamError,
                 chunks, pollHistory, lastMore, lastPoll, remoteLog, stageVars, runVars, statusVars, serviceVars>>

\* One iteration of the while loop whose request succeeds.
StreamPollOk_KeepsErrorCount ==
  /\ streamState = "polling"
  /\ isBuilding
  /\ Len(pollHistory) < MaxPolls
  /\ \E moreData \in MoreDataHeaders, nextStart \in TextSizeHeaders :
       LET logChunk == ProgressiveText(start) IN
       /\ chunks' = IF logChunk # <<>> THEN chunks \o logChunk ELSE chunks
       /\ start' = NextStart(nextStart, start)
       /\ isBuilding' = StillBuilding(moreData)
       /\ streamState' = IF StillBuilding(moreData) THEN "polling" ELSE "resolved"
       /\ lastMore' = moreData
       /\ lastPoll' = [start |-> start, size |-> nextStart]
  /\ pollHistory' = Append(pollHistory, "ok")
  /\ UNCHANGED <<consecutiveErrors, streamError, remoteLog, remoteDone,
                 stageVars, runVars, statusVars, serviceVars>>
StreamPollOk ==
  /\ streamState = "polling"
  /\ isBuilding
  /\ Len(pollHistory) < MaxPolls
  /\ \E moreData \in MoreDataHeaders, nextStart \in TextSizeHeaders :
       LET logChunk == ProgressiveText(start) IN
       /\ chunks' = IF logChunk # <<>> THEN chunks \o logChunk ELSE chunks
       /\ start' = NextStart(nextStart, start)
       /\ isBuilding' = StillBuilding(moreData)
       /\ consecutiveErrors' = 0
       /\ streamState' = IF StillBuilding(moreData) THEN "polling" ELSE "resolved"
       /\ lastMore' = moreData
       /\ lastPoll' = [start |-> start, size |-> nextStart]
  /\ pollHistory' = Append(pollHistory, "ok")
  /\ UNCHANGED <<streamError, remoteLog, remoteDone, stageVars, runVars, statusVars, serviceVars>>

\* One iteration of the while loop whose request fails.
StreamPollFail_SkipsAhead ==
  /\ streamState = "polling"
  /\ isBuilding
  /\ Len(pollHistory) < MaxPolls
  /\ consecutiveErrors' = consecutiveErrors + 1
  /\ IF Exhausted(consecutiveErrors + 1)
       THEN streamState' = "rejected" /\ streamError' = StreamFailedMessage
       ELSE UNCHANGED <<streamState, streamError>>
  /\ pollHistory' = Append(pollHistory, "fail")
  /\ lastPoll' = [start |-> start, size |-> NoHeader]
  /\ start' = Len(remoteLog)
  /\ UNCHANGED <<isBuilding, chunks, lastMore, remoteLog, remoteDone,
                 stageVars, runVars, statusVars, serviceVars>>
StreamPollFail ==
  /\ streamState = "polling"
  /\ isBuilding
  /\ Len(pollHistory) < MaxPolls
  /\ consecutiveErrors' = consecutiveErrors + 1
  /\ IF Exhausted(consecutiveErrors + 1)
       THEN streamState' = "rejected" /\ streamError' = StreamFailedMessage
       ELSE UNCHANGED <<streamState, streamError>>
  /\ pollHistory' = Append(pollHistory, "fail")
  /\ lastPoll' = [start |-> start, size |-> NoHeader]
  /\ UNCHANGED <<start, isBuilding, chunks, lastMore, remoteLog, remoteDone,
                 stageVars, runVars, statusVars, serviceVars>>

StreamNext ==
  \/ RemoteAppend
  \/ RemoteFinish
  \/ StreamPollOk
  \/ StreamPollFail

(***************************************************************************)
(* Stage relay of handleDeployService: checkStages, started once directly  *)
(* and then by setInterval(checkStages, 1000), so that an invocation may   *)
(* start while earlier ones still await the sink.                          *)
(***************************************************************************)
\* Stage names of the pipeline, in pipeline order.
StageNames == <<"Build", "Deploy", "Test", "Publish">>

\* STAGE_STATUS values the relay tells apart.
StageStatuses == {"NOT_EXECUTED", "IN_PROGRESS", "SUCCESS"}

\* The stage lists getAllStages may return: the first n stages of the
\* pipeline, each with any status. A snapshot, not a diff: any list may
\* follow any other.
Snapshots ==
  UNION {{[i \in 1..n |-> [name |-> StageNames[i], status |-> st[i]]] :
            st \in [1..n -> StageStatuses]} : n \in 0..MaxStages}

\* const stageKey = `${stage.name}-${stage.status}`
stageKey_NameOnly(stage) == <<stage.name>>
stageKey(stage) == <<stage.name, "-", stage.status>>

\* seenStages.add(stageKey)
MarkSeen_Forgotten(seen, key) == seen
MarkSeen(seen, key) == seen \cup {key}

\* !seenStages.has(stageKey) && stage.status !== 'NOT_EXECUTED'
IsNewTransition_ReportsSentinel(stage, seen) == stageKey(stage) \notin seen
IsNewTransition(stage, seen) ==
  stageKey(stage) \notin seen /\ stage.status # "NOT_EXECUTED"

\* stage.status === STAGE_STATUS.IN_PROGRESS ? 'Running' : 'Completed'
StatusText(stage) == IF stage.status = "IN_PROGRESS" THEN "Running" ELSE "Completed"

\* The (name, status) pairs a snapshot may hold.
StagePairs ==
  {<<StageNames[i], st>> : i \in 1..MaxStages, st \in StageStatuses}

\* The for loop over the stages still to visit, up to its next await: the
\* index of the first stage that is reported, or 0 when the loop runs to its
\* end.
RECURSIVE NextReported(_, _, _)
NextReported(stages, i, seen) ==
  IF i > Len(stages) THEN 0
  ELSE IF IsNewTransition(stages[i], seen) THEN i
  ELSE NextReported(stages, i + 1, seen)

\* No stage awaited.
NoStage == [name |-> "", status |-> ""]

Fetching == [state |-> "fetching", rest |-> <<>>, stage |-> NoStage]

\* An invocation in state `from` runs its loop over `stages` until it awaits
\* updateActionRun for a new transition (keeping the stages after it) or
\* finishes.
\* The transitions a snapshot shows, the sentinel status left out.
Transitions(stages) ==
  {<<stages[i].name, stages[i].status>> :
     i \in {k \in 1..Len(stages) : stages[k].status # "NOT_EXECUTED"}}

RunLoop(from, stages) ==
  LET j == NextReported(stages, 1, seenStages) IN
  IF j = 0
    THEN /\ checks' = checks (-) SetToBag({from})
         /\ UNCHANGED <<seenStages, stageReports>>
    ELSE /\ seenStages' = MarkSeen(seenStages, stageKey(stages[j]))
         /\ stageReports' =
              [stageReports EXCEPT ![<<stages[j].name, stages[j].status>>] = @ + 1]
         /\ checks' = (checks (-) SetToBag({from})) (+)
              SetToBag({[state |-> "awaitSink",
                         rest |-> SubSeq(stages, j + 1, Len(stages)),
                         stage |-> stages[j]]})

\* No script: getAllStages may return any snapshot.
NoScenario == [snapshots |-> <<>>, polled |-> 0]

StageInit ==
  /\ seenStages = {}
  /\ checks = EmptyBag
  /\ started = 0
  /\ stageReports = [p \in StagePairs |-> 0]
  /\ relayPc = "first"
  /\ scenario = NoScenario
  /\ stageLog = [polled |-> {}, accepted |-> {}]

\* await checkStages(): the first invocation starts.
CheckStagesFirst ==
  /\ relayPc = "first"
  /\ started = 0
  /\ started' = 1
  /\ checks' = SetToBag({Fetching})
  /\ UNCHANGED <<seenStages, stageReports, relayPc, scenario, stageLog, streamVars, runVars, statusVars, serviceVars>>

\* The first invocation has returned: setInterval(checkStages, 1000).
StartInterval ==
  /\ relayPc = "first"
  /\ started = 1
  /\ checks = EmptyBag
  /\ relayPc' = "interval"
  /\ UNCHANGED <<seenStages, checks, started, stageReports, scenario, stageLog, streamVars, runVars, statusVars, serviceVars>>

\* A timer tick starts another invocation, whatever the earlier ones do.
TimerTick ==
  /\ relayPc = "interval"
  /\ started < MaxChecks
  /\ started' = started + 1
  /\ checks' = checks (+) SetToBag({Fetching})
  /\ UNCHANGED <<seenStages, stageReports, relayPc, scenario, stageLog, streamVars, runVars, statusVars, serviceVars>>

\* getAllStages resolves with a snapshot and the loop starts.
GetAllStagesOk ==
  /\ BagIn(Fetching, checks)
  /\ \E snapshot \in Snapshots :
       /\ RunLoop(Fetching, snapshot)
       /\ stageLog' = [stageLog EXCEPT !.polled = @ \cup Transitions(snapshot)]
  /\ UNCHANGED <<started, relayPc, scenario, streamVars, runVars, statusVars, serviceVars>>

\* getAllStages rejects: caught and logged by checkStages.
GetAllStagesFail ==
  /\ BagIn(Fetching, checks)
  /\ checks' = checks (-) SetToBag({Fetching})
  /\ UNCHANGED <<seenStages, started, stageReports, relayPc, scenario, stageLog, streamVars, runVars, statusVars, serviceVars>>

\* updateActionRun resolves and the loop goes on with the next stage.
StageUpdateOk ==
  /\ \E c \in BagToSet(checks) :
       /\ c.state = "awaitSink"
       /\ RunLoop(c, c.rest)
       /\ stageLog' = [stageLog EXCEPT
                         !.accepted = @ \cup {<<c.stage.name, c.stage.status>>}]
  /\ UNCHANGED <<started, relayPc, scenario, streamVars, runVars, statusVars, serviceVars>>

\* updateActionRun rejects: caught by checkStages, which ends there.
StageUpdateFail ==
  /\ \E c \in BagToSet(checks) :
       /\ c.state = "awaitSink"
       /\ checks' = checks (-) SetToBag({c})
  /\ UNCHANGED <<seenStages, started, stageReports, relayPc, scenario, stageLog, streamVars, runVars, statusVars, serviceVars>>

\* finally { clearInterval(stageCheckInterval) }: no new invocation starts;
\* those in flight go on.
ClearInterval ==
  /\ relayPc = "interval"
  /\ relayPc' = "cleared"
  /\ UNCHANGED <<seenStages, checks, started, stageReports, scenario, stageLog, streamVars, runVars, statusVars, serviceVars>>

\* After the finally block: the closing log line, getBuildStatus and
\* updateActionRun({statusLabel: `Build ${result} (${duration}s)`}).
ReportTerminal ==
  /\ relayPc = "cleared"
  /\ relayPc' = "terminal"
  /\ UNCHANGED <<seenStages, checks, started, stageReports, scenario, stageLog, streamVars, runVars, statusVars, serviceVars>>

\* The snapshots of a pipeline whose Build stage has finished and whose
\* Deploy stage starts and then finishes, in the order the polls observe them.
ScenarioB ==
  << <<[name |-> "Build", status |-> "SUCCESS"]>>,
     <<[name |-> "Build", status |-> "SUCCESS"],
       [name |-> "Deploy", status |-> "IN_PROGRESS"]>>,
     <<[name |-> "Build", status |-> "SUCCESS"],
       [name |-> "Deploy", status |-> "SUCCESS"]>> >>

\* Number of polls a script answers.
ScenarioLen == Len(ScenarioB)

\* The scripts: any ScenarioLen snapshots in a row.
Scenarios == [1..ScenarioLen -> Snapshots]

ScenarioInit ==
  /\ seenStages = {}
  /\ checks = EmptyBag
  /\ started = 0
  /\ stageReports = [p \in StagePairs |-> 0]
  /\ relayPc = "first"
  /\ scenario \in [snapshots : Scenarios, polled : {0}]
  /\ stageLog = [polled |-> {}, accepted |-> {}]

\* getAllStages resolves with the next snapshot of the script.
ScenarioPoll ==
  /\ BagIn(Fetching, checks)
  /\ scenario.polled < Len(scenario.snapshots)
  /\ RunLoop(Fetching, scenario.snapshots[scenario.polled + 1])
  /\ scenario' = [scenario EXCEPT !.polled = @ + 1]
  /\ stageLog' = [stageLog EXCEPT
                    !.polled = @ \cup Transitions(scenario.snapshots[scenario.polled + 1])]
  /\ UNCHANGED <<started, relayPc, streamVars, runVars, statusVars, serviceVars>>

ScenarioNext ==
  \/ CheckStagesFirst
  \/ StartInterval
  \/ TimerTick
  \/ ScenarioPoll
  \/ StageUpdateOk
  \/ ClearInterval

StageNext ==
  \/ CheckStagesFirst
  \/ StartInterval
  \/ TimerTick
  \/ GetAllStagesOk
  \/ GetAllStagesFail
  \/ StageUpdateOk
  \/ StageUpdateFail
  \/ ClearInterval
  \/ ReportTerminal

(***************************************************************************)
(* One action message: PortKafkaConsumer.processActionMessage, which calls *)
(* handleBuildAction, which calls BlueprintHandler.createEntity.  Every    *)
(* await of the three functions is one step; a sink call is recorded when   *)
(* it is made, with its outcome.                                           *)
(***************************************************************************)
NoValue  == [kind |-> "none", message |-> <<>>]
NoStatus == [status |-> "none", result |-> "none", building |-> "undefined",
             duration |-> 0]

Error(message) == [kind |-> "Error", message |-> message]

\* error instanceof Error ? error.message : String(error)
ErrorMsg(e) == IF e.kind = "Error" THEN e.message ELSE e.message

\* `${error.message}` of a caught value: a thrown string has no message.
DotMessage(e) == IF e.kind = "Error" THEN e.message ELSE <<"undefined">>

\* Array.prototype.join(', ')
RECURSIVE Join(_)
Join(names) ==
  IF names = <<>> THEN <<>>
  ELSE IF Len(names) = 1 THEN names
  ELSE <<Head(names), ", ">> \o Join(Tail(names))

\* A property value that || falls through: undefined or ''.
Truthy(v) == v \notin {Absent, ""}

\* const provider = props.provider || props.ci_provider || 'jenkins'
ProviderName(p) ==
  IF Truthy(p.provider) THEN p.provider
  ELSE IF Truthy(p.ci_provider) THEN p.ci_provider
  ELSE "jenkins"

\* pluginRegistry.getProvider(provider): null when the name is not registered.
IsRegistered_Always(name) == TRUE
IsRegistered(name) == Contains(registry, name)

\* pluginRegistry.getProviderNames()
getProviderNames == registry

UnknownProviderError(name) ==
  Error(<<"CI/CD provider '", name, "' is not registered. Available providers: ">>
        \o Join(getProviderNames))

TokenError  == Error(<<"Failed to get access token">>)
SinkError   == Error(<<"Port API request failed">>)
TriggerError(name) == Error(<<"Failed to trigger build on ", name>>)
StreamError == Error(StreamFailedMessage)
StatusError == Error(<<"Failed to get build status">>)
BuildFailedError(result) == Error(<<"Build failed with status: ", result>>)

\* What the entity upsert request may fail with: an Error, or a value that
\* is not an Error (the test suite rejects with a plain string).
UpsertFailures == {Error(<<"Entity creation failed">>),
                   [kind |-> "string", message |-> <<"String error">>]}

\* Durations in milliseconds the remote may report; 0 is read as absent.
Durations == {0, 2500}

\* The remote's answer to the status request of the provider `name`: the
\* Jenkins build document (building, result, duration) or the CircleCI
\* workflow (status, and the duration computed from its timestamps).
RemoteBuildData(name) ==
  IF name = "circleci"
    THEN {[building |-> "undefined", result |-> r, duration |-> ms] :
            r \in {"running", "success", "failed", "canceled"}, ms \in Durations}
    ELSE {[building |-> "true", result |-> "null", duration |-> 0]} \cup
         {[building |-> "false", result |-> r, duration |-> ms] :
            r \in {"SUCCESS", "FAILURE", "ABORTED", "UNSTABLE"}, ms \in Durations}

\* CircleCIProvider.mapCircleCIStatus
mapCircleCIStatus(st) ==
  CASE st = "running" -> "running"
    [] st = "success" -> "success"
    [] st \in {"failed", "error", "failing", "unauthorized"} -> "failure"
    [] st = "on_hold" -> "pending"
    [] st = "canceled" -> "cancelled"
    [] OTHER -> "pending"

\* JenkinsProvider.mapJenkinsStatus, used by parseWebhookPayload only.
mapJenkinsStatus(st) ==
  CASE st \in {"STARTED", "IN_PROGRESS"} -> "running"
    [] st = "SUCCESS" -> "success"
    [] st \in {"FAILURE", "UNSTABLE"} -> "failure"
    [] st = "ABORTED" -> "cancelled"
    [] OTHER -> "pending"

getBuildStatus_ViaStatusMap(name, data) ==
  [status |-> IF name = "circleci" THEN mapCircleCIStatus(data.result)
              ELSE IF data.building = "true" THEN "running"
              ELSE mapJenkinsStatus(data.result),
   result |-> data.result, building |-> data.building, duration |-> data.duration]

\* getBuildStatus of the provider `name` on the remote's data.
getBuildStatus(name, data) ==
  IF name = "circleci"
    THEN [status |-> mapCircleCIStatus(data.result), result |-> data.result,
          building |-> data.building, duration |-> data.duration]
    ELSE [status |-> IF data.building = "true" THEN "running"
                     ELSE IF data.result = "SUCCESS" THEN "success"
                     ELSE IF data.result = "FAILURE" THEN "failure"
                     ELSE IF data.result = "ABORTED" THEN "cancelled"
                     ELSE "pending",
          result |-> data.result, building |-> data.building,
          duration |-> data.duration]

\* The outcomes of a sink call: the request succeeds, the request fails, or
\* getAccessToken fails and no request is sent.
SinkOutcomes == {"ok", "rejected", "noToken"}

SinkFailure(outcome) == IF outcome = "noToken" THEN TokenError ELSE SinkError

\* One updateActionRun (op "update") or addActionRunLog (op "log") call and
\* its await: on success control goes to okPc with okCaught in flight, on
\* failure to failPc with the failure in flight.
\* `link` is the link list of an updateActionRun call, <<>> when it has none.
SinkCallWithLink(op, term, msg, link, okPc, okCaught, failPc) ==
  \E outcome \in SinkOutcomes :
    /\ sinkCalls' = Append(sinkCalls,
         [op |-> op, term |-> term, msg |-> msg, link |-> link,
          outcome |-> outcome])
    /\ IF outcome = "ok"
         THEN pc' = okPc /\ caught' = okCaught
         ELSE pc' = failPc /\ caught' = SinkFailure(outcome)

SinkCall(op, term, msg, okPc, okCaught, failPc) ==
  SinkCallWithLink(op, term, msg, <<>>, okPc, okCaught, failPc)

provider == ProviderName(props)

PropValues == {Absent, "", "jenkins", "x"}
Registries == {<<>>, <<"jenkins">>, <<"circleci">>, <<"jenkins", "circleci">>}

RunInit ==
  /\ pc = "P_update"
  /\ props \in [provider : PropValues, ci_provider : PropValues]
  /\ registry \in Registries
  /\ autoCreate \in BOOLEAN
  /\ actionKind \in {"build", "other"}
  /\ sinkCalls = <<>>
  /\ providerCalls = <<>>
  /\ caught = NoValue
  /\ upsertError = NoValue
  /\ buildStatus = NoStatus
  /\ hbaResult = "none"
  /\ hbaError = NoValue

runRest == <<props, registry, autoCreate, actionKind>>

\* ---- processActionMessage ----

\* await this.updateActionRun(runId, { statusLabel: 'Processing action...' })
ProcessUpdate ==
  /\ pc = "P_update"
  /\ SinkCall("update", "none", <<"Processing action...">>,
              "P_started", NoValue, "P_catch")
  /\ UNCHANGED <<runRest, providerCalls, upsertError, buildStatus, hbaResult,
                 hbaError, streamVars, stageVars, statusVars, serviceVars>>

\* await this.addActionRunLog(runId, `Started processing action: ...`)
ProcessStarted ==
  /\ pc = "P_started"
  /\ SinkCall("log", "none", <<"Started processing action: ", actionKind>>,
              IF actionKind = "build" THEN "H_entry" ELSE "P_received",
              NoValue, "P_catch")
  /\ UNCHANGED <<runRest, providerCalls, upsertError, buildStatus, hbaResult,
                 hbaError, streamVars, stageVars, statusVars, serviceVars>>

\* else branch: await this.addActionRunLog(runId, `Received action: ...`)
ProcessReceived ==
  /\ pc = "P_received"
  /\ SinkCall("log", "none", <<"Received action: ", actionKind>>,
              "P_success", NoValue, "P_catch")
  /\ UNCHANGED <<runRest, providerCalls, upsertError, buildStatus, hbaResult,
                 hbaError, streamVars, stageVars, statusVars, serviceVars>>

\* await this.addActionRunLog(runId, 'Action completed successfully', 'SUCCESS', 'Completed')
ProcessSuccess ==
  /\ pc = "P_success"
  /\ SinkCall("log", "SUCCESS", <<"Action completed successfully">>,
              "P_done", NoValue, "P_catch")
  /\ UNCHANGED <<runRest, providerCalls, upsertError, buildStatus, hbaResult,
                 hbaError, streamVars, stageVars, statusVars, serviceVars>>

\* catch: await this.addActionRunLog(runId, `Action failed: ${errorMsg}`, 'FAILURE', 'Failed')
\* A failure of this call leaves processActionMessage rejected.
ProcessCatch ==
  /\ pc = "P_catch"
  /\ SinkCall("log", "FAILURE", <<"Action failed: ">> \o ErrorMsg(caught),
              "P_done", NoValue, "P_rejected")
  /\ UNCHANGED <<runRest, providerCalls, upsertError, buildStatus, hbaResult,
                 hbaError, streamVars, stageVars, statusVars, serviceVars>>

\* ---- handleBuildAction ----

\* (buildStatus.duration / 1000).toFixed(2) for a duration of whole
\* centiseconds, 'N/A' when the duration is 0 or absent.
Pad2(n) == IF n < 10 THEN <<"0">> \o ToDecimal(n) ELSE ToDecimal(n)
DurationText(ms) ==
  IF ms = 0 THEN <<"N/A">>
  ELSE ToDecimal(ms \div 1000) \o <<".">> \o Pad2((ms % 1000) \div 10)

\* statusLabel: `Build ${buildStatus.result} (${duration}s)`
TerminalLabel(result, ms) ==
  <<"Build ", result, " (">> \o DurationText(ms) \o <<"s)">>

\* `Build failed: ${errorMsg}`
FailureLogMessage_NoMessage(e) == <<"Build failed">>
FailureLogMessage(e) == <<"Build failed: ">> \o ErrorMsg(e)

PreambleLogs ==
  << <<"Starting build using ", provider, "...">>, <<"Service: ", "service">>,
     <<"Version: ", "1.0.0">>, <<"Environment: ", "dev">>,
     <<"Branch: ", "main">> >>

PreamblePc == <<"H_pre1", "H_pre2", "H_pre3", "H_pre4", "H_pre5">>

handlerRest == <<runRest, upsertError, buildStatus, hbaResult, hbaError,
                 streamVars, stageVars, statusVars, serviceVars>>

\* const ciProvider = pluginRegistry.getProvider(provider);
\* if (!ciProvider) throw new Error(...)   -- before the try block
HandlerResolve ==
  /\ pc = "H_entry"
  /\ IF IsRegistered(provider)
       THEN pc' = "H_pre1" /\ caught' = caught
       ELSE pc' = "H_reject" /\ caught' = UnknownProviderError(provider)
  /\ UNCHANGED <<sinkCalls, providerCalls, handlerRest>>

\* The five logs ahead of the try block; a failure leaves the function.
HandlerPreamble ==
  /\ \E i \in 1..5 :
       /\ pc = PreamblePc[i]
       /\ SinkCall("log", "none", PreambleLogs[i],
                   IF i < 5 THEN PreamblePc[i + 1] ELSE "H_triggering",
                   NoValue, "H_reject")
  /\ UNCHANGED <<providerCalls, handlerRest>>

\* await consumer.addActionRunLog(runId, 'Triggering build...')
HandlerTriggering ==
  /\ pc = "H_triggering"
  /\ SinkCall("log", "none", <<"Triggering build...">>,
              "H_trigger", NoValue, "H_catch")
  /\ UNCHANGED <<providerCalls, handlerRest>>

\* Where control goes when the awaited triggerBuild settles: on into the try
\* block, or to its catch.
AfterTrigger_Continues(ok) == "H_started"
AfterTrigger(ok) == IF ok THEN "H_started" ELSE "H_catch"

\* const buildInfo = await ciProvider.triggerBuild({...})
HandlerTrigger ==
  /\ pc = "H_trigger"
  /\ \E ok \in BOOLEAN :
       /\ providerCalls' = Append(providerCalls,
            [op |-> "triggerBuild", ok |-> ok, building |-> "undefined"])
       /\ pc' = AfterTrigger(ok)
       /\ caught' = IF ok THEN NoValue ELSE TriggerError(provider)
  /\ UNCHANGED <<sinkCalls, handlerRest>>

\* await consumer.addActionRunLog(runId, `Build #${buildInfo.buildNumber} started`)
HandlerStarted ==
  /\ pc = "H_started"
  /\ SinkCall("log", "none", <<"Build #", "N", " started">>,
              "H_link", NoValue, "H_catch")
  /\ UNCHANGED <<providerCalls, handlerRest>>

\* { link: [buildInfo.buildUrl], statusLabel: `Build #${buildInfo.buildNumber} in progress` }
InProgressUpdate_NoLink ==
  [link |-> <<>>, statusLabel |-> <<"Build #", "N", " in progress">>]
InProgressUpdate ==
  [link |-> <<"buildUrl">>, statusLabel |-> <<"Build #", "N", " in progress">>]

\* await consumer.updateActionRun(runId, { link, statusLabel: `Build #N in progress` })
HandlerLink ==
  /\ pc = "H_link"
  /\ SinkCallWithLink("update", "none", InProgressUpdate.statusLabel,
                      InProgressUpdate.link, "H_streaming", NoValue, "H_catch")
  /\ UNCHANGED <<providerCalls, handlerRest>>

\* await consumer.addActionRunLog(runId, 'Streaming build logs...')
HandlerStreaming ==
  /\ pc = "H_streaming"
  /\ SinkCall("log", "none", <<"Streaming build logs...">>,
              "H_rule1", NoValue, "H_catch")
  /\ UNCHANGED <<providerCalls, handlerRest>>

\* await consumer.addActionRunLog(runId, '─'.repeat(80)) ahead of the stream
HandlerRule1 ==
  /\ pc = "H_rule1"
  /\ SinkCall("log", "none", <<"rule">>, "H_callStream", NoValue, "H_catch")
  /\ UNCHANGED <<providerCalls, handlerRest>>

\* ciProvider.streamLogs(buildInfo.buildId, async (logChunk) => {...})
HandlerStreamLogs ==
  /\ pc = "H_callStream"
  /\ providerCalls' = Append(providerCalls,
       [op |-> "streamLogs", ok |-> TRUE, building |-> "undefined"])
  /\ pc' = "H_stream"
  /\ UNCHANGED <<sinkCalls, caught, handlerRest>>

Flushes == Cardinality({i \in DOMAIN sinkCalls : sinkCalls[i].msg = <<"logBuffer">>})

\* The callback's flush: logBuffer reached CHUNK_SIZE.  The provider does
\* not await the callback, so a failure of the flush does not reach the
\* handler.
StreamFlush ==
  /\ pc = "H_stream"
  /\ Flushes < MaxFlush
  /\ \E outcome \in SinkOutcomes :
       sinkCalls' = Append(sinkCalls, [op |-> "log", term |-> "none",
                           msg |-> <<"logBuffer">>, link |-> <<>>,
                           outcome |-> outcome])
  /\ UNCHANGED <<pc, caught, providerCalls, handlerRest>>

\* streamLogs resolves; logBuffer.length > 0 decides the remainder log.
StreamResolves ==
  /\ pc = "H_stream"
  /\ \E remainder \in BOOLEAN :
       pc' = IF remainder THEN "H_remainder" ELSE "H_rule2"
  /\ UNCHANGED <<sinkCalls, caught, providerCalls, handlerRest>>

\* streamLogs rejects after maxConsecutiveErrors failures.
StreamRejects ==
  /\ pc = "H_stream"
  /\ pc' = "H_catch"
  /\ caught' = StreamError
  /\ UNCHANGED <<sinkCalls, providerCalls, handlerRest>>

\* if (logBuffer.length > 0) await consumer.addActionRunLog(runId, logBuffer)
HandlerRemainder ==
  /\ pc = "H_remainder"
  /\ SinkCall("log", "none", <<"remainder">>, "H_rule2", NoValue, "H_catch")
  /\ UNCHANGED <<providerCalls, handlerRest>>

\* await consumer.addActionRunLog(runId, '─'.repeat(80)) after the stream
HandlerRule2 ==
  /\ pc = "H_rule2"
  /\ SinkCall("log", "none", <<"rule">>, "H_status", NoValue, "H_catch")
  /\ UNCHANGED <<providerCalls, handlerRest>>

\* const buildStatus = await ciProvider.getBuildStatus(buildInfo.buildId)
HandlerStatus ==
  /\ pc = "H_status"
  /\ \/ \E data \in RemoteBuildData(provider) :
          /\ providerCalls' = Append(providerCalls,
               [op |-> "getBuildStatus", ok |-> TRUE, building |-> data.building])
          /\ buildStatus' = getBuildStatus(provider, data)
          /\ pc' = "H_label"
          /\ caught' = NoValue
     \/ /\ providerCalls' = Append(providerCalls,
               [op |-> "getBuildStatus", ok |-> FALSE, building |-> "undefined"])
        /\ buildStatus' = buildStatus
        /\ pc' = "H_catch"
        /\ caught' = StatusError
  /\ UNCHANGED <<sinkCalls, runRest, upsertError, hbaResult, hbaError,
                 streamVars, stageVars, statusVars, serviceVars>>

\* Every status but failure counts as a success.
isSuccess_NotFailure(status) == status.status # "failure"

\* const isSuccess = buildStatus.status === 'success'
isSuccess(status) == status.status = "success"

\* await consumer.updateActionRun(runId, { statusLabel: `Build ${result} (${duration}s)` })
\* then  if (isSuccess) {...} else throw new Error(`Build failed with status: ...`)
HandlerLabel ==
  /\ pc = "H_label"
  /\ SinkCall("update", "none",
              TerminalLabel(buildStatus.result, buildStatus.duration),
              IF isSuccess(buildStatus) THEN "H_completed" ELSE "H_catch",
              IF isSuccess(buildStatus) THEN NoValue
                ELSE BuildFailedError(buildStatus.result),
              "H_catch")
  /\ UNCHANGED <<providerCalls, handlerRest>>

\* await consumer.addActionRunLog(runId, `Successfully completed build #N!...`)
\* then  if (process.env.AUTO_CREATE_ENTITIES === 'true') {...}
HandlerCompleted ==
  /\ pc = "H_completed"
  /\ SinkCall("log", "none", <<"Successfully completed build #", "N", "!">>,
              IF autoCreate THEN "H_creating" ELSE "H_return",
              NoValue, "H_catch")
  /\ UNCHANGED <<providerCalls, handlerRest>>

\* await consumer.addActionRunLog(runId, 'Creating/updating entity in Port...')
HandlerCreating ==
  /\ pc = "H_creating"
  /\ SinkCall("log", "none", <<"Creating/updating entity in Port...">>,
              "E_token", NoValue, "H_catch")
  /\ UNCHANGED <<providerCalls, handlerRest>>

\* ---- BlueprintHandler.createEntity, called inside the handler's inner try ----

\* const token = await this.consumer.getAccessToken()
EntityToken ==
  /\ pc = "E_token"
  /\ \E ok \in BOOLEAN :
       IF ok THEN pc' = "E_creating" /\ caught' = NoValue
             ELSE pc' = "H_warn" /\ caught' = TokenError
  /\ UNCHANGED <<sinkCalls, providerCalls, handlerRest>>

\* await this.consumer.addActionRunLog(runId, `Creating ${blueprintId} entity: ...`)
\* ahead of createEntity's try block
EntityCreating ==
  /\ pc = "E_creating"
  /\ SinkCall("log", "none", <<"Creating ", "blueprint", " entity: ", "title">>,
              "E_post", NoValue, "H_warn")
  /\ UNCHANGED <<providerCalls, handlerRest>>

\* await axios.post(`.../blueprints/${blueprintId}/entities?upsert=true&merge=true`, ...)
EntityPost ==
  /\ pc = "E_post"
  /\ \/ /\ pc' = "E_created"
        /\ UNCHANGED <<caught, upsertError>>
     \/ \E e \in UpsertFailures :
          /\ pc' = "E_catch"
          /\ caught' = e
          /\ upsertError' = e
  /\ UNCHANGED <<sinkCalls, providerCalls, runRest, buildStatus, hbaResult,
                 hbaError, streamVars, stageVars, statusVars, serviceVars>>

\* await this.consumer.addActionRunLog(runId, `Entity created: ...`, 'SUCCESS')
\* inside createEntity's try block
EntityCreated ==
  /\ pc = "E_created"
  /\ SinkCall("log", "SUCCESS", <<"Entity created: ", "identifier">>,
              "H_entityDone", NoValue, "E_catch")
  /\ UNCHANGED <<providerCalls, handlerRest>>

\* catch: await this.consumer.addActionRunLog(runId,
\*          `Failed to create entity: ${error.message}`, 'FAILURE'); throw error
EntityCatch ==
  /\ pc = "E_catch"
  /\ SinkCall("log", "FAILURE",
              <<"Failed to create entity: ">> \o DotMessage(caught),
              "H_warn", caught, "H_warn")
  /\ UNCHANGED <<providerCalls, handlerRest>>

\* ---- handleBuildAction, continued ----

\* await consumer.addActionRunLog(runId, `Entity '...' created/updated in blueprint '...'`, 'SUCCESS')
HandlerEntityDone ==
  /\ pc = "H_entityDone"
  /\ SinkCall("log", "SUCCESS",
              <<"Entity '", "identifier", "' created/updated in blueprint '",
                "blueprint", "'">>,
              "H_return", NoValue, "H_warn")
  /\ UNCHANGED <<providerCalls, handlerRest>>

\* catch (entityError): await consumer.addActionRunLog(runId,
\*   `Warning: Failed to create entity: ${entityError.message}`, 'WARNING')
HandlerWarn ==
  /\ pc = "H_warn"
  /\ SinkCall("log", "WARNING",
              <<"Warning: Failed to create entity: ">> \o DotMessage(caught),
              "H_return", NoValue, "H_catch")
  /\ UNCHANGED <<providerCalls, handlerRest>>

\* catch (error): await consumer.addActionRunLog(runId, `Build failed: ${errorMsg}`);
\* throw error
HandlerCatch ==
  /\ pc = "H_catch"
  /\ SinkCall("log", "none", FailureLogMessage(caught),
              "H_reject", caught, "H_reject")
  /\ UNCHANGED <<providerCalls, handlerRest>>

\* The promise of handleBuildAction rejects with the value in flight.
HandlerReject ==
  /\ pc = "H_reject"
  /\ hbaResult' = "rejected"
  /\ hbaError' = caught
  /\ pc' = "P_catch"
  /\ UNCHANGED <<sinkCalls, providerCalls, caught, runRest, upsertError,
                 buildStatus, streamVars, stageVars, statusVars, serviceVars>>

\* The promise of handleBuildAction resolves.
HandlerReturn ==
  /\ pc = "H_return"
  /\ hbaResult' = "resolved"
  /\ pc' = "P_success"
  /\ UNCHANGED <<sinkCalls, providerCalls, caught, runRest, upsertError,
                 buildStatus, hbaError, streamVars, stageVars, statusVars, serviceVars>>

RunNext ==
  \/ ProcessUpdate \/ ProcessStarted \/ ProcessReceived
  \/ ProcessSuccess \/ ProcessCatch
  \/ HandlerResolve \/ HandlerPreamble \/ HandlerTriggering \/ HandlerTrigger
  \/ HandlerStarted \/ HandlerLink \/ HandlerStreaming \/ HandlerRule1
  \/ HandlerStreamLogs \/ StreamFlush \/ StreamResolves \/ StreamRejects
  \/ HandlerRemainder \/ HandlerRule2 \/ HandlerStatus \/ HandlerLabel
  \/ HandlerCompleted \/ HandlerCreating
  \/ EntityToken \/ EntityCreating \/ EntityPost \/ EntityCreated \/ EntityCatch
  \/ HandlerEntityDone \/ HandlerWarn \/ HandlerCatch
  \/ HandlerReject \/ HandlerReturn

(***************************************************************************)
(* Successive getBuildStatus calls on one provider for one buildId.  The   *)
(* provider keeps nothing between calls: each call is one request to the   *)
(* remote, answered by whatever the remote holds at that time.             *)
(***************************************************************************)
ProviderKinds == {"jenkins", "circleci"}

\* The call rejected: 'Failed to get build status: ...'
StatusRejected == [status |-> "rejected", result |-> "none",
                   building |-> "undefined", duration |-> 0]

\* No log relay is being followed.
RelayIdle == [pc |-> "idle", delivered |-> <<>>, logBuffer |-> <<>>, sent |-> <<>>,
              pending |-> 0, failed |-> FALSE]

\* No triggerBuild call is being followed.
TriggerIdle == [provider |-> "none", parameters |-> <<>>, pc |-> "idle",
                requests |-> <<>>, remote |-> "none", pipeline |-> 0,
                buildInfo |-> [buildId |-> <<>>, buildNumber |-> 0, buildUrl |-> <<>>],
                error |-> <<>>]

StatusInit ==
  /\ statusProvider \in ProviderKinds
  /\ statusCalls = <<>>
  /\ trig = TriggerIdle
  /\ relay = RelayIdle

\* A getBuildStatus call whose request is answered.
StatusCallOk ==
  /\ Len(statusCalls) < MaxStatusCalls
  /\ \E data \in RemoteBuildData(statusProvider) :
       statusCalls' = Append(statusCalls, getBuildStatus(statusProvider, data))
  /\ UNCHANGED <<statusProvider, trig, relay, streamVars, stageVars, runVars, serviceVars>>

\* A getBuildStatus call whose request fails.
StatusCallFail ==
  /\ Len(statusCalls) < MaxStatusCalls
  /\ statusCalls' = Append(statusCalls, StatusRejected)
  /\ UNCHANGED <<statusProvider, trig, relay, streamVars, stageVars, runVars, serviceVars>>

StatusNext ==
  \/ StatusCallOk
  \/ StatusCallFail

(***************************************************************************)
(* One triggerBuild call: JenkinsProvider (POST build or                   *)
(* buildWithParameters, wait, GET the job for lastBuild.number) and        *)
(* CircleCIProvider (POST pipeline, wait, GET the pipeline's workflows).   *)
(***************************************************************************)
\* The parameter maps of a call, as their keys in order; <<>> is {} and the
\* default of a call without argument.
ParameterMaps == {<<>>, <<"K">>, <<"K", "branch">>, <<"SERVICE_NAME", "VERSION">>}

\* const hasParameters = parameters && Object.keys(parameters).length > 0
hasParameters(parameters) == Len(parameters) > 0

\* const endpoint = hasParameters ? 'buildWithParameters' : 'build'
Endpoint_AlwaysParameterized(parameters) == "buildWithParameters"
Endpoint(parameters) == IF hasParameters(parameters) THEN "buildWithParameters" ELSE "build"

\* response.data.lastBuild?.number of the job document: absent for a job
\* without builds, otherwise the number of its latest build.
LastBuilds ==
  {[present |-> FALSE, number |-> 0]} \cup
  {[present |-> TRUE, number |-> n] : n \in 0..MaxBuildNumber}

\* if (!buildNumber) throw new Error('No build number returned from Jenkins')
MissingNumber_Unchecked(lastBuild) == FALSE
MissingNumber(lastBuild) == ~lastBuild.present \/ lastBuild.number = 0

\* workflowResponse.data.items of the pipeline: the ids of its workflows.
WorkflowLists == {<<>>, <<"wf-1">>, <<"wf-1", "wf-2">>}

NoBuildInfo == [buildId |-> <<>>, buildNumber |-> 0, buildUrl |-> <<>>]

TriggerFailed(name, cause) ==
  IF name = "circleci"
    THEN <<"Failed to trigger CircleCI pipeline: ">> \o cause
    ELSE <<"Failed to trigger Jenkins build: ">> \o cause

TriggerInit ==
  /\ \E name \in ProviderKinds, parameters \in ParameterMaps :
       trig = [provider |-> name, parameters |-> parameters, pc |-> "post",
               requests |-> <<>>, remote |-> "none", pipeline |-> 0,
               buildInfo |-> NoBuildInfo, error |-> <<>>]

\* The first request of the call, as each provider builds it.
TriggerRequest ==
  IF trig.provider = "circleci"
    THEN [method |-> "POST", endpoint |-> "pipeline", params |-> trig.parameters]
    ELSE [method |-> "POST", endpoint |-> Endpoint(trig.parameters),
          params |-> IF hasParameters(trig.parameters) THEN trig.parameters ELSE <<>>]

\* await this.client.post(...): accepted (CircleCI answers with the number of
\* the new pipeline), and the wait of 3 s that follows.
TriggerPostOk ==
  /\ trig.pc = "post"
  /\ \E n \in (IF trig.provider = "circleci" THEN 1..MaxBuildNumber ELSE {0}) :
       trig' = [trig EXCEPT !.pc = "get", !.pipeline = n,
                            !.requests = Append(@, TriggerRequest)]
  /\ UNCHANGED <<statusProvider, statusCalls, relay, streamVars, stageVars, runVars, serviceVars>>

\* await this.client.post(...) rejects: caught and rethrown.
TriggerPostFail ==
  /\ trig.pc = "post"
  /\ trig' = [trig EXCEPT !.pc = "rejected",
                          !.requests = Append(@, TriggerRequest),
                          !.error = TriggerFailed(trig.provider, <<"request failed">>)]
  /\ UNCHANGED <<statusProvider, statusCalls, relay, streamVars, stageVars, runVars, serviceVars>>

\* JenkinsProvider: GET /job/<job>/api/json answers with the job document.
JenkinsResolve ==
  /\ trig.pc = "get"
  /\ trig.provider = "jenkins"
  /\ \E lastBuild \in LastBuilds :
       trig' =
         IF MissingNumber(lastBuild)
           THEN [trig EXCEPT !.pc = "rejected", !.remote = lastBuild,
                   !.requests = Append(@, [method |-> "GET", endpoint |-> "api/json",
                                           params |-> <<>>]),
                   !.error = TriggerFailed("jenkins",
                               <<"No build number returned from Jenkins">>)]
           ELSE [trig EXCEPT !.pc = "resolved", !.remote = lastBuild,
                   !.requests = Append(@, [method |-> "GET", endpoint |-> "api/json",
                                           params |-> <<>>]),
                   !.buildInfo = [buildId |-> ToDecimal(lastBuild.number),
                                  buildNumber |-> lastBuild.number,
                                  buildUrl |-> <<"jenkinsUrl", "/job/", "jobName", "/">>
                                               \o ToDecimal(lastBuild.number)]]
  /\ UNCHANGED <<statusProvider, statusCalls, relay, streamVars, stageVars, runVars, serviceVars>>

\* CircleCIProvider: GET /pipeline/<id>/workflow answers with the workflow
\* list; reading items[0].id of an empty list throws a TypeError, which the
\* catch block rethrows.
CircleCIResolve ==
  /\ trig.pc = "get"
  /\ trig.provider = "circleci"
  /\ \E items \in WorkflowLists :
       trig' =
         IF items = <<>>
           THEN [trig EXCEPT !.pc = "rejected", !.remote = items,
                   !.requests = Append(@, [method |-> "GET", endpoint |-> "workflow",
                                           params |-> <<>>]),
                   !.error = TriggerFailed("circleci",
                               <<"Cannot read properties of undefined (reading 'id')">>)]
           ELSE [trig EXCEPT !.pc = "resolved", !.remote = items,
                   !.requests = Append(@, [method |-> "GET", endpoint |-> "workflow",
                                           params |-> <<>>]),
                   !.buildInfo = [buildId |-> <<items[1]>>,
                                  buildNumber |-> trig.pipeline,
                                  buildUrl |-> <<"https://app.circleci.com/pipelines/",
                                                 "projectSlug", "/">>
                                               \o ToDecimal(trig.pipeline)
                                               \o <<"/workflows/", items[1]>>]]
  /\ UNCHANGED <<statusProvider, statusCalls, relay, streamVars, stageVars, runVars, serviceVars>>

\* The second request rejects: caught and rethrown.
TriggerGetFail ==
  /\ trig.pc = "get"
  /\ trig' = [trig EXCEPT !.pc = "rejected",
                !.requests = Append(@, [method |-> "GET",
                    endpoint |-> IF trig.provider = "circleci" THEN "workflow"
                                 ELSE "api/json",
                    params |-> <<>>]),
                !.error = TriggerFailed(trig.provider, <<"request failed">>)]
  /\ UNCHANGED <<statusProvider, statusCalls, relay, streamVars, stageVars, runVars, serviceVars>>

TriggerNext ==
  \/ TriggerPostOk
  \/ TriggerPostFail
  \/ JenkinsResolve
  \/ CircleCIResolve
  \/ TriggerGetFail

(***************************************************************************)
(* Log relay: the onLogChunk callback the orchestrator hands to            *)
(* streamLogs, and the remainder flush after streamLogs has resolved.      *)
(* streamLogs calls onLogChunk without awaiting it, so a flush             *)
(* (await addActionRunLog(runId, logBuffer); logBuffer = '') may still be  *)
(* in flight when the next chunk arrives or when streamLogs resolves.      *)
(***************************************************************************)
CHUNK_SIZE == 500

\* Lengths of the chunks the stream may deliver.
ChunkLengths == {200, 500}

RECURSIVE Size(_)
\* logBuffer.length
Size(buffer) == IF buffer = <<>> THEN 0 ELSE Head(buffer).len + Size(Tail(buffer))

\* if (logBuffer.length >= CHUNK_SIZE)
ReachedChunkSize(buffer) == Size(buffer) >= CHUNK_SIZE

RelayInit ==
  relay = [pc |-> "streaming", delivered |-> <<>>, logBuffer |-> <<>>, sent |-> <<>>,
           pending |-> 0, failed |-> FALSE]

\* streamLogs calls onLogChunk(logChunk): logBuffer += logChunk, and when the
\* buffer has reached CHUNK_SIZE addActionRunLog is called with its content.
RelayChunk ==
  /\ relay.pc = "streaming"
  /\ Len(relay.delivered) < MaxChunks
  /\ \E len \in ChunkLengths :
       LET chunk  == [id |-> Len(relay.delivered) + 1, len |-> len]
           buffer == Append(relay.logBuffer, chunk)
       IN relay' = IF ReachedChunkSize(buffer)
                     THEN [relay EXCEPT !.delivered = Append(@, chunk),
                                        !.logBuffer = buffer,
                                        !.sent = @ \o buffer,
                                        !.pending = @ + 1]
                     ELSE [relay EXCEPT !.delivered = Append(@, chunk),
                                        !.logBuffer = buffer]
  /\ UNCHANGED <<statusProvider, statusCalls, trig, streamVars, stageVars, runVars, serviceVars>>

\* The addActionRunLog call of a flush resolves: logBuffer = ''.
FlushResolves ==
  /\ relay.pending > 0
  /\ relay' = [relay EXCEPT !.pending = @ - 1, !.logBuffer = <<>>]
  /\ UNCHANGED <<statusProvider, statusCalls, trig, streamVars, stageVars, runVars, serviceVars>>

\* The addActionRunLog call of a flush rejects: the callback's promise
\* rejects unobserved and logBuffer keeps its content.
FlushRejects ==
  /\ relay.pending > 0
  /\ relay' = [relay EXCEPT !.pending = @ - 1, !.failed = TRUE]
  /\ UNCHANGED <<statusProvider, statusCalls, trig, streamVars, stageVars, runVars, serviceVars>>

\* await ciProvider.streamLogs(...) resolves, then
\* if (logBuffer.length > 0) await consumer.addActionRunLog(runId, logBuffer)
RelayRemainder ==
  /\ relay.pc = "streaming"
  /\ relay' = IF Size(relay.logBuffer) > 0
                THEN [relay EXCEPT !.pc = "awaitRemainder",
                                   !.sent = @ \o relay.logBuffer]
                ELSE [relay EXCEPT !.pc = "done"]
  /\ UNCHANGED <<statusProvider, statusCalls, trig, streamVars, stageVars, runVars, serviceVars>>

\* The remainder's addActionRunLog call returns; a rejection goes to the
\* catch block of the orchestrator.
RemainderReturns ==
  /\ relay.pc = "awaitRemainder"
  /\ \E ok \in BOOLEAN :
       relay' = IF ok THEN [relay EXCEPT !.pc = "done"]
                      ELSE [relay EXCEPT !.pc = "rejected", !.failed = TRUE]
  /\ UNCHANGED <<statusProvider, statusCalls, trig, streamVars, stageVars, runVars, serviceVars>>

\* await ciProvider.streamLogs(...) rejects.
RelayStreamRejects ==
  /\ relay.pc = "streaming"
  /\ relay' = [relay EXCEPT !.pc = "rejected"]
  /\ UNCHANGED <<statusProvider, statusCalls, trig, streamVars, stageVars, runVars, serviceVars>>

RelayNext ==
  \/ RelayChunk
  \/ FlushResolves
  \/ FlushRejects
  \/ RelayRemainder
  \/ RemainderReturns
  \/ RelayStreamRejects

(***************************************************************************)
(* PluginRegistry: the providers map (a Map keeps its keys in insertion    *)
(* order), register, unregister and the three lookups.                     *)
(***************************************************************************)
\* No provider instance: what Map.get returns for a missing key.
NoProvider == 0

RECURSIVE hasProvider(_, _)
\* this.providers.has(name)
hasProvider(map, name) ==
  IF map = <<>> THEN FALSE
  ELSE Head(map).name = name \/ hasProvider(Tail(map), name)

RECURSIVE getProvider(_, _)
\* this.providers.get(name) || null
getProvider(map, name) ==
  IF map = <<>> THEN NoProvider
  ELSE IF Head(map).name = name THEN Head(map).instance
  ELSE getProvider(Tail(map), name)

\* Array.from(this.providers.keys())
providerKeys(map) == [i \in 1..Len(map) |-> map[i].name]

\* this.providers.set(name, provider): an existing key keeps its position.
MapSet(map, name, instance) ==
  IF hasProvider(map, name)
    THEN [i \in 1..Len(map) |->
            IF map[i].name = name THEN [name |-> name, instance |-> instance]
            ELSE map[i]]
    ELSE Append(map, [name |-> name, instance |-> instance])

\* this.providers.delete(name)
MapDelete(map, name) == SelectSeq(map, LAMBDA e : e.name # name)

\* register stores the instance before it validates the configuration.
register_StoresBeforeValidating(map, name, instance, valid) ==
  [providers |-> MapSet(map, name, instance),
   outcome |-> IF valid THEN "returned" ELSE "threw"]

\* PluginRegistry.register: construct, getName, validateConfig, set; an
\* exception of validateConfig leaves the try block before the set.
register(map, name, instance, valid) ==
  IF valid
    THEN [providers |-> MapSet(map, name, instance), outcome |-> "returned"]
    ELSE [providers |-> map, outcome |-> "threw"]

RegistryIdle == [providers |-> <<>>, before |-> <<>>, outcome |-> "idle",
                 name |-> "none", calls |-> 0]

\* private providers: Map<string, CIProviderInterface> = new Map()
RegistryInit ==
  reg = [providers |-> <<>>, before |-> <<>>, outcome |-> "none",
         name |-> "none", calls |-> 0]

regRest == <<conn, hook, batch, tok, call, taskVars, streamVars, stageVars, runVars, statusVars>>

\* One register call; the instance it constructs is numbered by the call.
Register ==
  /\ reg.calls < MaxRegistryCalls
  /\ \E name \in ProviderKinds, valid \in BOOLEAN :
       LET r == register(reg.providers, name, reg.calls + 1, valid)
       IN reg' = [providers |-> r.providers, before |-> reg.providers,
                  outcome |-> r.outcome, name |-> name, calls |-> reg.calls + 1]
  /\ UNCHANGED regRest

\* One unregister call.
Unregister ==
  /\ reg.calls < MaxRegistryCalls
  /\ \E name \in ProviderKinds :
       reg' = [providers |-> MapDelete(reg.providers, name),
               before |-> reg.providers,
               outcome |-> IF hasProvider(reg.providers, name) THEN "removed"
                           ELSE "notRemoved",
               name |-> name, calls |-> reg.calls + 1]
  /\ UNCHANGED regRest

RegistryNext ==
  \/ Register
  \/ Unregister

(***************************************************************************)
(* The consumer connection of PortKafkaConsumer: start, shutdown, the      *)
(* CRASH handler and reconnect.  `linked` and `consuming` are the state of *)
(* the kafkajs consumer itself: connected to the brokers, and running      *)
(* eachMessage on the topic.  Every await is one step.                     *)
(***************************************************************************)
\* reconnect(retries = 5, delay = 5000)
DefaultRetries == 5
DefaultDelay == 5000

\* The arguments a reconnect call may be given.
RetryCounts == 1..MaxRetries
Delays == {1000, DefaultDelay}

\* The wait after a failed attempt is the same after every attempt.
Backoff_Fixed(delay, attempt) == delay

\* setTimeout(resolve, delay * attempt)
Backoff(delay, attempt) == delay * attempt

\* if (attempt === retries)
LastAttempt(attempt, retries) == attempt = retries

ConnIdle == [isConnected |-> FALSE, isShuttingDown |-> FALSE, linked |-> FALSE,
             consuming |-> FALSE, start |-> "idle", caller |-> "none",
             shutdown |-> "idle", rc |-> "idle", attempt |-> 0, retries |-> 0,
             delay |-> 0, attempts |-> <<>>, waits |-> <<>>, crashes |-> 0,
             exit |-> "none"]

\* After the constructor: this.isConnected = false; this.isShuttingDown = false
ConnConstructed == [ConnIdle EXCEPT !.start = "none", !.shutdown = "none", !.rc = "none"]

connRest == <<reg, hook, batch, tok, call, taskVars, streamVars, stageVars, runVars, statusVars>>

\* The process is alive.
Alive == conn.exit = "none"

\* start() is entered: it returns at once when isShuttingDown is set, and
\* otherwise goes on to consumer.connect().
StartEnter ==
  /\ Alive /\ conn.start = "called"
  /\ conn' = [conn EXCEPT !.start = IF conn.isShuttingDown THEN "returned"
                                    ELSE "connecting"]
  /\ UNCHANGED connRest

\* await this.consumer.connect() returns; the catch block of start clears
\* isConnected and rethrows.
StartConnect ==
  /\ Alive /\ conn.start = "connecting"
  /\ \E ok \in BOOLEAN :
       conn' = IF ok THEN [conn EXCEPT !.start = "subscribing", !.linked = TRUE,
                                       !.isConnected = TRUE]
               ELSE [conn EXCEPT !.start = "threw", !.isConnected = FALSE]
  /\ UNCHANGED connRest

\* await this.consumer.subscribe(...) returns.
StartSubscribe ==
  /\ Alive /\ conn.start = "subscribing"
  /\ \E ok \in BOOLEAN :
       conn' = IF ok THEN [conn EXCEPT !.start = "running"]
               ELSE [conn EXCEPT !.start = "threw", !.isConnected = FALSE]
  /\ UNCHANGED connRest

\* await this.consumer.run({eachMessage}) returns: the consumer is fetching.
\* run joins the group over the cluster connections, so it may succeed on
\* a consumer that was disconnected in the meantime, or fail.
StartRun ==
  /\ Alive /\ conn.start = "running"
  /\ \E ok \in BOOLEAN :
       conn' = IF ok THEN [conn EXCEPT !.start = "returned", !.consuming = TRUE,
                                       !.linked = TRUE]
               ELSE [conn EXCEPT !.start = "threw", !.isConnected = FALSE]
  /\ UNCHANGED connRest

\* consumer.start().catch(() => process.exit(1)) of the main execution.
MainStartDone ==
  /\ Alive /\ conn.caller = "main" /\ conn.start \in {"returned", "threw"}
  /\ conn' = [conn EXCEPT !.caller = "none", !.start = "none",
                           !.exit = IF conn.start = "threw" THEN "1" ELSE @]
  /\ UNCHANGED connRest

\* The CRASH event of a running consumer: reconnect() unless shutting down.
Crash ==
  /\ Alive /\ conn.consuming /\ conn.rc = "none" /\ conn.crashes < MaxCrashes
  /\ conn' = IF conn.isShuttingDown
               THEN [conn EXCEPT !.consuming = FALSE, !.crashes = @ + 1]
               ELSE [conn EXCEPT !.consuming = FALSE, !.crashes = @ + 1,
                                 !.rc = "disconnect", !.attempt = 1,
                                 !.retries = DefaultRetries,
                                 !.delay = DefaultDelay]
  /\ UNCHANGED connRest

\* await this.consumer.disconnect() of an attempt; the DISCONNECT handler
\* clears isConnected.
ReconnectDisconnect ==
  /\ Alive /\ conn.rc = "disconnect"
  /\ \E ok \in BOOLEAN :
       conn' = IF ok THEN [conn EXCEPT !.rc = "delay", !.linked = FALSE,
                                       !.consuming = FALSE, !.isConnected = FALSE]
               ELSE [conn EXCEPT !.rc = "catch"]
  /\ UNCHANGED connRest

\* await new Promise(resolve => setTimeout(resolve, delay)), then start().
ReconnectDelay ==
  /\ Alive /\ conn.rc = "delay" /\ conn.start = "none"
  /\ conn' = [conn EXCEPT !.rc = "start", !.start = "called", !.caller = "reconnect"]
  /\ UNCHANGED connRest

\* await this.start() returns: 'Reconnection successful', return; or throws.
ReconnectStartDone ==
  /\ Alive /\ conn.rc = "start" /\ conn.caller = "reconnect"
  /\ conn.start \in {"returned", "threw"}
  /\ conn' = IF conn.start = "returned"
               THEN [conn EXCEPT !.rc = "returned", !.start = "none", !.caller = "none",
                                 !.attempts = Append(@, "ok")]
               ELSE [conn EXCEPT !.rc = "catch", !.start = "none", !.caller = "none"]
  /\ UNCHANGED connRest

\* The catch block of an attempt: process.exit(1) on the last attempt,
\* otherwise the wait of delay * attempt.
ReconnectCatch ==
  /\ Alive /\ conn.rc = "catch"
  /\ conn' = IF LastAttempt(conn.attempt, conn.retries)
               THEN [conn EXCEPT !.rc = "exited", !.exit = "1",
                                 !.attempts = Append(@, "fail")]
               ELSE [conn EXCEPT !.rc = "backoff",
                                 !.attempts = Append(@, "fail"),
                                 !.waits = Append(@, Backoff(conn.delay, conn.attempt))]
  /\ UNCHANGED connRest

\* The wait is over: attempt++ and the loop condition attempt <= retries.
ReconnectBackoff ==
  /\ Alive /\ conn.rc = "backoff"
  /\ conn' = [conn EXCEPT !.attempt = @ + 1,
                           !.rc = IF conn.attempt + 1 <= conn.retries
                                    THEN "disconnect" ELSE "fellThrough"]
  /\ UNCHANGED connRest

\* shutdown() is entered: isShuttingDown = true, and consumer.disconnect()
\* is called only if (this.isConnected).
ShutdownEnter ==
  /\ Alive /\ conn.shutdown = "called"
  /\ conn' = [conn EXCEPT !.isShuttingDown = TRUE,
                           !.shutdown = IF conn.isConnected THEN "disconnecting"
                                        ELSE "returned"]
  /\ UNCHANGED connRest

\* await this.consumer.disconnect() of shutdown returns.
ShutdownDisconnect ==
  /\ Alive /\ conn.shutdown = "disconnecting"
  /\ \E ok \in BOOLEAN :
       conn' = IF ok THEN [conn EXCEPT !.shutdown = "returned", !.linked = FALSE,
                                       !.consuming = FALSE, !.isConnected = FALSE]
               ELSE [conn EXCEPT !.shutdown = "threw"]
  /\ UNCHANGED connRest

\* SIGTERM, SIGINT or a caller: shutdown() is called, once.
ShutdownCall ==
  /\ Alive /\ conn.shutdown = "none"
  /\ conn' = [conn EXCEPT !.shutdown = "called"]
  /\ UNCHANGED connRest

\* One reconnect(retries, delay) call on a consumer that is not shutting down.
ReconnectInit ==
  \E retries \in RetryCounts, delay \in Delays :
    conn = [ConnConstructed EXCEPT !.rc = "disconnect", !.attempt = 1,
                                   !.retries = retries, !.delay = delay,
                                   !.linked = TRUE, !.isConnected = TRUE]

ReconnectNext ==
  \/ ReconnectDisconnect
  \/ ReconnectDelay
  \/ StartEnter
  \/ StartConnect
  \/ StartSubscribe
  \/ StartRun
  \/ ReconnectStartDone
  \/ ReconnectCatch
  \/ ReconnectBackoff

\* The main execution: new PortKafkaConsumer({}) and consumer.start().
ConnInit ==
  conn = [ConnConstructed EXCEPT !.start = "called", !.caller = "main"]

ConnNext ==
  \/ ReconnectNext
  \/ MainStartDone
  \/ Crash
  \/ ShutdownCall
  \/ ShutdownEnter
  \/ ShutdownDisconnect

(***************************************************************************)
(* validateWebhook: the default of CIProviderInterface (kept by            *)
(* JenkinsProvider) and the override of CircleCIProvider.  A header value  *)
(* and a digest are sequences; the digest of crypto.createHmac('sha256',   *)
(* secret).update(JSON.stringify(payload)).digest('hex') is kept symbolic, *)
(* different for different secrets or payloads.                            *)
(***************************************************************************)
\* headers['circleci-signature'] when the request has no such header.
NoSignature == <<"<absent>">>

\* config.webhookSecret: not given, empty, or a secret.
WebhookSecrets == {Absent, "", "s1", "s2"}

\* The parsed request bodies.
WebhookPayloads == {"p1", "p2", "p3"}

\* hmac.update(JSON.stringify(payload)).digest('hex')
HmacSha256(secret, payload) == <<"hmac-sha256", secret, payload>>

\* The values the signature header may carry: none, empty, or the digest
\* of some payload under some secret.
SignatureHeaders ==
  {NoSignature, <<>>} \cup
  {HmacSha256(k, p) : k \in WebhookSecrets \ {Absent, ""}, p \in WebhookPayloads}

\* !signature
NoSignatureGiven(signature) == signature \in {NoSignature, <<>>}

\* validateWebhook accepts any request that carries a signature header.
validateWebhook_AnySignature(kind, secret, signature, payload) ==
  IF kind # "circleci" THEN "true"
  ELSE IF ~Truthy(secret) THEN "true"
  ELSE IF NoSignatureGiven(signature) THEN "false"
  ELSE "true"

\* provider.validateWebhook(headers, payload) of the provider `kind`.
validateWebhook(kind, secret, signature, payload) ==
  IF kind # "circleci" THEN "true"
  ELSE IF ~Truthy(secret) THEN "true"
  ELSE IF NoSignatureGiven(signature) THEN "false"
  ELSE IF signature = HmacSha256(secret, payload) THEN "true"
  ELSE "false"

HookIdle == [kind |-> "none", secret |-> Absent, signature |-> NoSignature,
             payload |-> "none", result |-> "idle"]

\* A provider as constructed and a webhook request received for it.
\* JenkinsProvider takes no webhook secret.
HookInit ==
  \E kind \in ProviderKinds, secret \in WebhookSecrets,
     signature \in SignatureHeaders, payload \in WebhookPayloads :
    /\ kind = "jenkins" => secret = Absent
    /\ hook = [kind |-> kind, secret |-> secret, signature |-> signature,
               payload |-> payload, result |-> "none"]

\* if (!provider.validateWebhook(req.headers, payload)) ...
ValidateWebhook ==
  /\ hook.result = "none"
  /\ hook' = [hook EXCEPT !.result =
                validateWebhook(hook.kind, hook.secret, hook.signature, hook.payload)]
  /\ UNCHANGED <<reg, conn, batch, tok, call, taskVars, streamVars, stageVars, runVars, statusVars>>

HookNext == ValidateWebhook

(***************************************************************************)
(* CircleCIProvider.streamLogs: the job list of the workflow is requested  *)
(* once, then each job's output is requested and passed to onLogChunk.     *)
(***************************************************************************)
\* The job lists the workflow may have: job numbers, each at most once.
JobNumbers == 1..MaxJobs
JobLists ==
  {jobs \in UNION {[1..n -> JobNumbers] : n \in 0..MaxJobs} :
     \A i, j \in 1..Len(jobs) : i # j => jobs[i] # jobs[j]}

\* getJobLogs(jobNumber): the text built from the output response, or
\* `[Logs not available for job N]` when the request fails.
getJobLogs(jobNumber, ok) ==
  [kind |-> IF ok THEN "content" ELSE "unavailable", job |-> jobNumber]

\* GET /workflow/${buildId}/job
JobListRequest == [url |-> "job list", job |-> 0]

\* GET .../project/${projectSlug}/${jobNumber}/output/0/0
OutputRequest(jobNumber) == [url |-> "output", job |-> jobNumber]

\* The content is emitted before the header.
JobChunks_ContentFirst(jobNumber, logs) ==
  <<logs, [kind |-> "header", job |-> jobNumber]>>

\* onLogChunk(`\n=== Job: ${job.name} ===\n`); onLogChunk(logs)
JobChunks(jobNumber, logs) ==
  <<[kind |-> "header", job |-> jobNumber], logs>>

BatchIdle == [pc |-> "idle", jobs |-> <<>>, i |-> 0, requests |-> <<>>,
              emitted |-> <<>>]

\* streamLogs(buildId, onLogChunk) is called; the remote holds the job list.
BatchInit ==
  \E jobs \in JobLists :
    batch = [pc |-> "jobs", jobs |-> jobs, i |-> 0, requests |-> <<>>,
             emitted |-> <<>>]

batchRest == <<reg, conn, hook, tok, call, taskVars, streamVars, stageVars, runVars, statusVars>>

\* await this.client.get(`/workflow/${buildId}/job`) returns the list.
BatchJobsOk ==
  /\ batch.pc = "jobs"
  /\ batch' = [batch EXCEPT !.pc = IF batch.jobs = <<>> THEN "resolved" ELSE "job",
                             !.i = 1,
                             !.requests = Append(@, JobListRequest)]
  /\ UNCHANGED batchRest

\* The job list request fails: the catch block rethrows.
BatchJobsFail ==
  /\ batch.pc = "jobs"
  /\ batch' = [batch EXCEPT !.pc = "rejected", !.requests = Append(@, JobListRequest)]
  /\ UNCHANGED batchRest

\* One iteration of for (const job of jobs): await getJobLogs, then the two
\* onLogChunk calls.
BatchJob ==
  /\ batch.pc = "job"
  /\ \E ok \in BOOLEAN :
       LET jobNumber == batch.jobs[batch.i]
       IN batch' = [batch EXCEPT
                      !.requests = Append(@, OutputRequest(jobNumber)),
                      !.emitted = @ \o JobChunks(jobNumber, getJobLogs(jobNumber, ok)),
                      !.i = @ + 1,
                      !.pc = IF batch.i = Len(batch.jobs) THEN "resolved" ELSE "job"]
  /\ UNCHANGED batchRest

BatchNext ==
  \/ BatchJobsOk
  \/ BatchJobsFail
  \/ BatchJob

(***************************************************************************)
(* PortKafkaConsumer.getAccessToken called concurrently.  A call is two    *)
(* steps: the cache test up to the await of the auth request, and the      *)
(* continuation after the response.  Tokens are numbered as the auth       *)
(* endpoint issues them; 0 is no token.  The clock counts in ticks.        *)
(***************************************************************************)
\* this.accessToken, this.tokenExpiry before any refresh
NoToken == 0

\* Date.now() + (55 * 60 * 1000): the 55 minutes, in clock ticks.
TokenLifetime == 2

CallIds == 1..MaxTokenCalls

\* this.accessToken && this.tokenExpiry && Date.now() < this.tokenExpiry
CacheValid(cache, now) ==
  cache.accessToken # NoToken /\ cache.tokenExpiry # 0 /\ now < cache.tokenExpiry

\* A refresh stores its token and leaves an expiry that is already later.
Refresh_KeepsLaterExpiry(cache, token, now, id) ==
  IF cache.tokenExpiry >= now + TokenLifetime - 1 /\ cache.tokenExpiry # 0
    THEN [cache EXCEPT !.accessToken = token, !.tokenBy = id]
    ELSE [accessToken |-> token, tokenExpiry |-> now + TokenLifetime,
          tokenBy |-> id, expiryBy |-> id]

\* this.accessToken = response.data.accessToken;
\* this.tokenExpiry = Date.now() + (55 * 60 * 1000)
\* tokenBy and expiryBy name the call that wrote each field.
Refresh(cache, token, now, id) ==
  [accessToken |-> token, tokenExpiry |-> now + TokenLifetime,
   tokenBy |-> id, expiryBy |-> id]

NoCall == [pc |-> "idle", result |-> NoToken, refreshed |-> FALSE]

TokenIdle == [cache |-> [accessToken |-> NoToken, tokenExpiry |-> 0,
                         tokenBy |-> 0, expiryBy |-> 0],
              now |-> 0, issued |-> {}, stale |-> NoToken, calls |-> <<>>]

\* The cache is empty, or holds a token of an earlier refresh that has
\* expired.
TokenInit ==
  \E expired \in BOOLEAN :
    tok = [cache |-> IF expired
                       THEN [accessToken |-> 1, tokenExpiry |-> 1,
                             tokenBy |-> 0, expiryBy |-> 0]
                       ELSE [accessToken |-> NoToken, tokenExpiry |-> 0,
                             tokenBy |-> 0, expiryBy |-> 0],
           now |-> 1,
           issued |-> IF expired THEN {1} ELSE {},
           stale |-> IF expired THEN 1 ELSE NoToken,
           calls |-> [c \in CallIds |-> NoCall]]

tokRest == <<reg, conn, hook, batch, call, taskVars, streamVars, stageVars, runVars, statusVars>>

\* getAccessToken() is called: the cached token is returned when it is
\* still valid, otherwise the auth request is sent and awaited.
TokenCall ==
  /\ \E c \in CallIds :
       /\ tok.calls[c].pc = "idle"
       /\ tok' = IF CacheValid(tok.cache, tok.now)
                   THEN [tok EXCEPT !.calls[c] = [pc |-> "returned",
                                                   result |-> tok.cache.accessToken,
                                                   refreshed |-> FALSE]]
                   ELSE [tok EXCEPT !.calls[c].pc = "waiting"]
  /\ UNCHANGED tokRest

\* The auth endpoint answers a waiting call with a newly issued token: the
\* call stores it with its expiry and returns this.accessToken.
AuthRespond ==
  /\ \E c \in CallIds :
       /\ tok.calls[c].pc = "waiting"
       /\ LET token == Cardinality(tok.issued) + 1
              cache == Refresh(tok.cache, token, tok.now, c)
          IN tok' = [tok EXCEPT !.cache = cache,
                                !.issued = @ \cup {token},
                                !.calls[c] = [pc |-> "returned",
                                              result |-> cache.accessToken,
                                              refreshed |-> TRUE]]
  /\ UNCHANGED tokRest

\* The auth request fails: the call logs and rethrows.
AuthFail ==
  /\ \E c \in CallIds :
       /\ tok.calls[c].pc = "waiting"
       /\ tok' = [tok EXCEPT !.calls[c].pc = "threw"]
  /\ UNCHANGED tokRest

\* Time passes.
ClockTick ==
  /\ tok.now < MaxClock
  /\ tok.calls # <<>>
  /\ tok' = [tok EXCEPT !.now = @ + 1]
  /\ UNCHANGED tokRest

TokenNext ==
  \/ TokenCall
  \/ AuthRespond
  \/ AuthFail
  \/ ClockTick

(***************************************************************************)
(* The argument of ciProvider.triggerBuild in handleBuildAction: an object *)
(* literal of the normalized fields and PORT_RUN_ID, with the message      *)
(* properties spread over it.  An object is a function on its possible     *)
(* keys, Absent where the key is missing.                                  *)
(***************************************************************************)
\* The keys message.properties may carry in the model.
PropKeys == {"branch", "replicas", "PORT_RUN_ID"}

\* The keys of the object literal ahead of the spread.
LiteralKeys == {"SERVICE_NAME", "VERSION", "ENVIRONMENT", "BRANCH", "PORT_RUN_ID"}

RunIds == {"run-1", "run-2"}

\* The values of each property.
PropValuesOf(key) ==
  CASE key = "branch" -> {Absent, "", "dev", "main"}
    [] key = "replicas" -> {Absent, "1", "3"}
    [] key = "PORT_RUN_ID" -> {Absent} \cup RunIds

MessageProps == {p \in [PropKeys -> {Absent, "", "dev", "main", "1", "3"} \cup RunIds] :
                   \A k \in PropKeys : p[k] \in PropValuesOf(k)}

\* a || b for property values
OrElse(a, b) == IF Truthy(a) THEN a ELSE b

\* { SERVICE_NAME: serviceName, VERSION: version, ENVIRONMENT: environment,
\*   BRANCH: branch, PORT_RUN_ID: runId }
ParameterLiteral(runId, p) ==
  [k \in LiteralKeys |->
     CASE k = "SERVICE_NAME" -> "service"
       [] k = "VERSION" -> "1.0.0"
       [] k = "ENVIRONMENT" -> "dev"
       [] k = "BRANCH" -> OrElse(p["branch"], "main")
       [] k = "PORT_RUN_ID" -> runId]

\* { ...literal, ...p }: a key of p replaces the same key of the literal.
Spread(literal, p) ==
  [k \in DOMAIN literal \cup DOMAIN p |->
     IF k \in DOMAIN p /\ p[k] # Absent THEN p[k]
     ELSE IF k \in DOMAIN literal THEN literal[k]
     ELSE Absent]

\* The object handleBuildAction passes to triggerBuild.
TriggerParameters(runId, p) == Spread(ParameterLiteral(runId, p), p)

CallIdle == [pc |-> "idle", runId |-> "none", props |-> <<>>, parameters |-> <<>>]

\* An action message: message.context.runId and message.properties.
CallInit ==
  \E runId \in RunIds, p \in MessageProps :
    call = [pc |-> "try", runId |-> runId, props |-> p, parameters |-> <<>>]

\* ciProvider.triggerBuild({...}) is called.
CallTriggerBuild ==
  /\ call.pc = "try"
  /\ call' = [call EXCEPT !.pc = "called",
                           !.parameters = TriggerParameters(call.runId, call.props)]
  /\ UNCHANGED <<reg, conn, hook, batch, tok, taskVars, streamVars, stageVars, runVars, statusVars>>

CallNext == CallTriggerBuild


(***************************************************************************)
(* One finished Jenkins build classified on both paths: by getBuildStatus  *)
(* on the build document and by parseWebhookPayload / normalizeBuildData   *)
(* on the webhook that reports it.                                         *)
(***************************************************************************)
\* Result codes of a finished build; NOT_BUILT stands for the codes neither
\* path knows.
NativeResults == {"SUCCESS", "FAILURE", "ABORTED", "UNSTABLE", "NOT_BUILT"}

FinishedBuilds ==
  [number : {7, 42}, result : NativeResults, duration : Durations]

\* The webhook Jenkins posts for the build: its status field carries the
\* native result code.
WebhookPayloadOf(build) ==
  [buildNumber |-> build.number, status |-> build.result,
   duration |-> build.duration]

\* JenkinsProvider.parseWebhookPayload
parseWebhookPayload(payload) ==
  [buildId |-> ToDecimal(payload.buildNumber),
   buildNumber |-> payload.buildNumber,
   status |-> mapJenkinsStatus(payload.status),
   result |-> payload.status,
   duration |-> payload.duration]

\* JenkinsProvider.normalizeBuildData
normalizeBuildData(providerData) ==
  [provider |-> "jenkins",
   buildId |-> ToDecimal(providerData.buildNumber),
   buildNumber |-> providerData.buildNumber,
   status |-> mapJenkinsStatus(OrElse(providerData.result,
                                      OrElse(providerData.status, ""))),
   result |-> OrElse(providerData.result, ""),
   duration |-> providerData.duration]

NotClassified == "<none>"

ClassifyIdle ==
  [build |-> [number |-> 0, result |-> "", duration |-> 0],
   polled |-> NotClassified, parsed |-> NotClassified,
   normalized |-> NotClassified]

ClassifyInit ==
  classify \in [build : FinishedBuilds, polled : {NotClassified},
                parsed : {NotClassified}, normalized : {NotClassified}]

classifyRest == <<inbox, fleet, recon, tasks, reg, conn, hook, batch, tok, call,
                  streamVars, stageVars, runVars, statusVars>>

\* getBuildStatus(buildId) answers with the finished build's document.
ClassifyPoll ==
  /\ classify.polled = NotClassified
  /\ classify' = [classify EXCEPT !.polled =
       getBuildStatus("jenkins",
         [building |-> "false", result |-> classify.build.result,
          duration |-> classify.build.duration]).status]
  /\ UNCHANGED classifyRest

\* The webhook for the build arrives and is parsed.
ClassifyWebhook ==
  /\ classify.parsed = NotClassified
  /\ classify' = [classify EXCEPT !.parsed =
       parseWebhookPayload(WebhookPayloadOf(classify.build)).status]
  /\ UNCHANGED classifyRest

\* The parsed payload is normalized.
ClassifyNormalize ==
  /\ classify.parsed # NotClassified
  /\ classify.normalized = NotClassified
  /\ classify' = [classify EXCEPT !.normalized =
       normalizeBuildData(parseWebhookPayload(WebhookPayloadOf(classify.build))).status]
  /\ UNCHANGED classifyRest

ClassifyNext ==
  \/ ClassifyPoll
  \/ ClassifyWebhook
  \/ ClassifyNormalize


(***************************************************************************)
(* CRASH events of the Kafka consumer and the reconnect sequences the      *)
(* handler starts: this.reconnect() is called, not awaited, on every CRASH *)
(* that arrives while isShuttingDown is false.                             *)
(***************************************************************************)
ReconIdle ==
  [seqs |-> <<>>, attempts |-> 0, crashes |-> 0, isShuttingDown |-> FALSE,
   exit |-> "idle"]

ReconInit ==
  recon = [seqs |-> <<>>, attempts |-> 0, crashes |-> 0,
           isShuttingDown |-> FALSE, exit |-> "none"]

reconRest == <<classify, inbox, fleet, tasks, reg, conn, hook, batch, tok, call,
               streamVars, stageVars, runVars, statusVars>>

\* The reconnect sequences that have not returned.
InProgress == {i \in 1..Len(recon.seqs) : recon.seqs[i].pc # "returned"}

\* consumer.on(CRASH): reconnect() runs up to its first await, which begins
\* attempt 1 (disconnect, delay, start).
CrashEvent ==
  /\ recon.exit = "none"
  /\ recon.crashes < MaxCrashEvents
  /\ recon' =
       IF recon.isShuttingDown
         THEN [recon EXCEPT !.crashes = @ + 1]
         ELSE [recon EXCEPT !.crashes = @ + 1,
                            !.attempts = @ + 1,
                            !.seqs = Append(@, [attempt |-> 1, pc |-> "starting"])]
  /\ UNCHANGED reconRest

\* await this.start() resolves: 'Reconnection successful', return.
ReconStartOk ==
  /\ recon.exit = "none"
  /\ \E i \in InProgress :
       /\ recon.seqs[i].pc = "starting"
       /\ recon' = [recon EXCEPT !.seqs[i].pc = "returned", !.attempts = 0]
  /\ UNCHANGED reconRest

\* disconnect or start rejects: the catch block exits the process on the
\* last attempt and waits delay * attempt otherwise.
ReconStartFail ==
  /\ recon.exit = "none"
  /\ \E i \in InProgress :
       /\ recon.seqs[i].pc = "starting"
       /\ recon' =
            IF LastAttempt(recon.seqs[i].attempt, DefaultRetries)
              THEN [recon EXCEPT !.exit = "1"]
              ELSE [recon EXCEPT !.seqs[i].pc = "backoff"]
  /\ UNCHANGED reconRest

\* The backoff delay is over: the loop begins the next attempt.
ReconRetry ==
  /\ recon.exit = "none"
  /\ \E i \in InProgress :
       /\ recon.seqs[i].pc = "backoff"
       /\ recon' = [recon EXCEPT !.seqs[i].attempt = @ + 1,
                                 !.seqs[i].pc = "starting",
                                 !.attempts = @ + 1]
  /\ UNCHANGED reconRest

\* shutdown() sets isShuttingDown.
ReconShutdown ==
  /\ recon.exit = "none"
  /\ ~recon.isShuttingDown
  /\ recon' = [recon EXCEPT !.isShuttingDown = TRUE]
  /\ UNCHANGED reconRest

CrashNext ==
  \/ CrashEvent
  \/ ReconStartOk
  \/ ReconStartFail
  \/ ReconRetry
  \/ ReconShutdown


(***************************************************************************)
(* Several orchestrations calling JenkinsProvider.triggerBuild on the same *)
(* provider: each call posts its trigger request, waits 3 s and reads      *)
(* lastBuild.number of the job.  The remote job queues the requests and    *)
(* starts one numbered build per request.                                  *)
(***************************************************************************)
Callers == 1..MaxTriggers

\* A build of the job that no call of this process asked for.
Foreign == MaxTriggers + 1

\* lastBuild of the job document: the latest build the job has started.
LastBuildOf(builds) ==
  [present |-> builds # <<>>, number |-> Len(builds)]

FleetIdle ==
  [builds |-> <<>>, queue |-> <<>>,
   calls |-> [c \in Callers |-> [pc |-> "idle", buildInfo |-> NoBuildInfo]]]

\* The job has no build yet or one build started by someone else.
FleetInit ==
  \E builds \in {<<>>, <<Foreign>>} :
    fleet = [builds |-> builds, queue |-> <<>>,
             calls |-> [c \in Callers |-> [pc |-> "post", buildInfo |-> NoBuildInfo]]]

fleetRest == <<classify, inbox, recon, tasks, reg, conn, hook, batch, tok, call,
               streamVars, stageVars, runVars, statusVars>>

\* await this.client.post(url, ...) of call c is accepted: the request joins
\* the job's queue and the call waits 3 s.
FleetPost ==
  /\ \E c \in Callers :
       /\ fleet.calls[c].pc = "post"
       /\ fleet' = [fleet EXCEPT !.queue = Append(@, c), !.calls[c].pc = "get"]
  /\ UNCHANGED fleetRest

\* The remote starts the build of the oldest queued request and gives it the
\* next build number.
FleetRemoteStart ==
  /\ fleet.queue # <<>>
  /\ fleet' = [fleet EXCEPT !.builds = Append(@, Head(fleet.queue)),
                            !.queue = Tail(@)]
  /\ UNCHANGED fleetRest

\* After the wait, GET /job/<job>/api/json: the call takes lastBuild.number
\* as its build.
FleetGet ==
  /\ \E c \in Callers :
       /\ fleet.calls[c].pc = "get"
       /\ LET lastBuild == LastBuildOf(fleet.builds) IN
          fleet' =
            IF MissingNumber(lastBuild)
              THEN [fleet EXCEPT !.calls[c].pc = "rejected"]
              ELSE [fleet EXCEPT !.calls[c].pc = "resolved",
                      !.calls[c].buildInfo =
                         [buildId |-> ToDecimal(lastBuild.number),
                          buildNumber |-> lastBuild.number,
                          buildUrl |-> <<"/job/", ToDecimal(lastBuild.number)>>]]
  /\ UNCHANGED fleetRest

FleetNext ==
  \/ FleetPost
  \/ FleetRemoteStart
  \/ FleetGet


(***************************************************************************)
(* The webhook server: handleWebhook and its activeTasks map.  Every POST  *)
(* on a provider's route runs handleWebhook; the calls overlap at their    *)
(* awaits.                                                                 *)
(***************************************************************************)
HookProviders == {"jenkins", "circleci"}
HookBuildIds  == {<<"1">>, <<"2">>}

\* normalizedData.status of a webhook.
HookStatuses == {"running", "pending", "success"}

\* const taskKey = `${providerName}-${normalizedData.buildId}`
taskKey(providerName, buildId) == <<providerName, "-">> \o buildId

TaskKeys == {taskKey(n, b) : n \in HookProviders, b \in HookBuildIds}

\* activeTasks.has(taskKey)
activeTasksHas_Never(active, key) == FALSE
activeTasksHas(active, key) == key \in active

\* The number of monitoring tasks of a key that are running.
MonitorCount(key) ==
  CopiesIn([key |-> key, pc |-> "streamLogs"], tasks.running)
  + CopiesIn([key |-> key, pc |-> "getBuildStatus"], tasks.running)

TasksIdle ==
  [activeTasks |-> {}, running |-> EmptyBag,
   started |-> [k \in TaskKeys |-> 0], webhooks |-> 0, pc |-> "idle"]

TasksInit ==
  tasks = [activeTasks |-> {}, running |-> EmptyBag,
           started |-> [k \in TaskKeys |-> 0], webhooks |-> 0, pc |-> "serving"]

tasksRest == <<classify, inbox, fleet, recon, reg, conn, hook, batch, tok, call,
               streamVars, stageVars, runVars, statusVars>>

\* handleWebhook up to its first await: a running or pending build whose key
\* is not in activeTasks is entered there and its log stream starts; for a
\* key already there nothing is done; for a finished build the complete
\* logs are fetched.
HandleWebhook ==
  /\ tasks.webhooks < MaxWebhooks
  /\ \E n \in HookProviders, b \in HookBuildIds, st \in HookStatuses :
       LET key == taskKey(n, b) IN
       tasks' =
         IF st \in {"running", "pending"} /\ ~activeTasksHas(tasks.activeTasks, key)
           THEN [tasks EXCEPT !.webhooks = @ + 1,
                              !.activeTasks = @ \cup {key},
                              !.started[key] = @ + 1,
                              !.running = @ (+) SetToBag({[key |-> key, pc |-> "streamLogs"]})]
           ELSE [tasks EXCEPT !.webhooks = @ + 1]
  /\ UNCHANGED tasksRest

\* await provider.streamLogs(...) resolves: getBuildStatus is requested.
MonitorStreamOk ==
  /\ \E t \in BagToSet(tasks.running) :
       /\ t.pc = "streamLogs"
       /\ tasks' = [tasks EXCEPT !.running =
            (@ (-) SetToBag({t})) (+) SetToBag({[t EXCEPT !.pc = "getBuildStatus"]})]
  /\ UNCHANGED tasksRest

\* streamLogs or getBuildStatus rejects (catch), or getBuildStatus resolves:
\* finally { activeTasks.delete(taskKey) } and the task ends.
MonitorEnd ==
  /\ \E t \in BagToSet(tasks.running) :
       tasks' = [tasks EXCEPT !.running = @ (-) SetToBag({t}),
                              !.activeTasks = @ \ {t.key}]
  /\ UNCHANGED tasksRest

TasksNext ==
  \/ HandleWebhook
  \/ MonitorStreamOk
  \/ MonitorEnd


(***************************************************************************)
(* The consumer's eachMessage handler over the messages of a topic:        *)
(* JSON.parse and processActionMessage inside try/catch.  The handler of   *)
(* an action message triggers the build, streams its logs (onLogChunk      *)
(* starts sink calls that streamLogs does not await), reads the final      *)
(* status and reports; main() installs the process's unhandledRejection    *)
(* listener, which shuts the consumer down.                                *)
(***************************************************************************)
MessageKinds == {"invalid json", "action"}

InboxIdle ==
  [messages |-> <<>>, current |-> 0, pc |-> "idle", flushes |-> EmptyBag,
   flushed |-> 0, failed |-> {}, outcomes |-> <<>>, unhandled |-> 0,
   exit |-> "idle"]

InboxInit ==
  \E messages \in [1..MaxMessages -> MessageKinds] :
    inbox = [messages |-> messages, current |-> 0, pc |-> "waiting",
             flushes |-> EmptyBag, flushed |-> 0, failed |-> {},
             outcomes |-> <<>>, unhandled |-> 0, exit |-> "none"]

inboxRest == <<classify, fleet, recon, tasks, reg, conn, hook, batch, tok, call,
               streamVars, stageVars, runVars, statusVars>>

\* The handler of the current message returns with `outcome`.
Handled(outcome) ==
  [inbox EXCEPT !.pc = "waiting", !.outcomes = Append(@, outcome)]

\* A failure met while the current message is processed.
Failing(box) == [box EXCEPT !.failed = @ \cup {inbox.current}]

\* eachMessage is called with the next message: JSON.parse throws on a value
\* that is not JSON and the catch block logs it; otherwise
\* processActionMessage starts.
EachMessage ==
  /\ inbox.exit = "none"
  /\ inbox.pc = "waiting"
  /\ inbox.current < Len(inbox.messages)
  /\ LET i == inbox.current + 1 IN
     inbox' =
       IF inbox.messages[i] = "invalid json"
         THEN [inbox EXCEPT !.current = i, !.failed = @ \cup {i},
                            !.outcomes = Append(@, "logged")]
         ELSE [inbox EXCEPT !.current = i, !.pc = "triggerBuild", !.flushed = 0]
  /\ UNCHANGED inboxRest

\* await ciProvider.triggerBuild(...)
InboxTrigger ==
  /\ inbox.exit = "none"
  /\ inbox.pc = "triggerBuild"
  /\ \E ok \in BOOLEAN :
       inbox' = IF ok THEN [inbox EXCEPT !.pc = "streamLogs"]
                ELSE Failing([inbox EXCEPT !.pc = "report"])
  /\ UNCHANGED inboxRest

\* streamLogs calls onLogChunk without awaiting it; the callback starts an
\* addActionRunLog call for the full buffer.
InboxChunk ==
  /\ inbox.exit = "none"
  /\ inbox.pc = "streamLogs"
  /\ inbox.flushed < MaxFlush
  /\ inbox' = [inbox EXCEPT !.flushed = @ + 1,
                            !.flushes = @ (+) SetToBag({inbox.current})]
  /\ UNCHANGED inboxRest

\* The sink call of a flush resolves.
InboxFlushOk ==
  /\ inbox.exit = "none"
  /\ \E i \in BagToSet(inbox.flushes) :
       inbox' = [inbox EXCEPT !.flushes = @ (-) SetToBag({i})]
  /\ UNCHANGED inboxRest

\* The sink call of a flush rejects: the callback's promise has no handler,
\* the unhandledRejection listener logs it and calls shutdown().
InboxFlushFail ==
  /\ inbox.exit = "none"
  /\ \E i \in BagToSet(inbox.flushes) :
       inbox' = [inbox EXCEPT !.flushes = @ (-) SetToBag({i}),
                              !.failed = @ \cup {i},
                              !.unhandled = @ + 1,
                              !.exit = "shutdown"]
  /\ UNCHANGED inboxRest

\* await ciProvider.streamLogs(...) returns.
InboxStream ==
  /\ inbox.exit = "none"
  /\ inbox.pc = "streamLogs"
  /\ \E ok \in BOOLEAN :
       inbox' = IF ok THEN [inbox EXCEPT !.pc = "getBuildStatus"]
                ELSE Failing([inbox EXCEPT !.pc = "report"])
  /\ UNCHANGED inboxRest

\* await ciProvider.getBuildStatus(...) returns; on success the handler and
\* processActionMessage run to 'Action completed successfully'.
InboxStatus ==
  /\ inbox.exit = "none"
  /\ inbox.pc = "getBuildStatus"
  /\ \E ok \in BOOLEAN :
       inbox' = IF ok THEN Handled("completed")
                ELSE Failing([inbox EXCEPT !.pc = "report"])
  /\ UNCHANGED inboxRest

\* processActionMessage's catch block: addActionRunLog('Action failed: ...',
\* 'FAILURE', 'Failed').  When that call rejects too, processActionMessage
\* rejects and the catch block of eachMessage logs the error.
InboxReport ==
  /\ inbox.exit = "none"
  /\ inbox.pc = "report"
  /\ \E ok \in BOOLEAN :
       inbox' = IF ok THEN Handled("reported") ELSE Handled("logged")
  /\ UNCHANGED inboxRest

InboxNext ==
  \/ EachMessage
  \/ InboxTrigger
  \/ InboxChunk
  \/ InboxFlushOk
  \/ InboxFlushFail
  \/ InboxStream
  \/ InboxStatus
  \/ InboxReport


(***************************************************************************)
(* States of the machines a specification does not run.                    *)
(***************************************************************************)
StreamIdle ==
  /\ start = 0
  /\ isBuilding = FALSE
  /\ consecutiveErrors = 0
  /\ streamState = "idle"
  /\ streamError = NoError
  /\ chunks = <<>>
  /\ pollHistory = <<>>
  /\ lastMore = "<no poll>"
  /\ lastPoll = [start |-> 0, size |-> NoHeader]
  /\ remoteLog = <<>>
  /\ remoteDone = FALSE

StageIdle ==
  /\ seenStages = {}
  /\ checks = EmptyBag
  /\ started = 0
  /\ stageReports = [p \in StagePairs |-> 0]
  /\ relayPc = "idle"
  /\ scenario = NoScenario
  /\ stageLog = [polled |-> {}, accepted |-> {}]

StatusIdle ==
  /\ statusProvider = "none"
  /\ statusCalls = <<>>
  /\ trig = TriggerIdle
  /\ relay = RelayIdle


TaskIdle ==
  /\ classify = ClassifyIdle
  /\ inbox = InboxIdle
  /\ fleet = FleetIdle
  /\ recon = ReconIdle
  /\ tasks = TasksIdle

ServiceIdle ==
  /\ TaskIdle
  /\ reg = RegistryIdle
  /\ conn = ConnIdle
  /\ hook = HookIdle
  /\ batch = BatchIdle
  /\ tok = TokenIdle
  /\ call = CallIdle

RunIdle ==
  /\ pc = "idle"
  /\ props = [provider |-> Absent, ci_provider |-> Absent]
  /\ registry = <<>>
  /\ autoCreate = FALSE
  /\ actionKind = "other"
  /\ sinkCalls = <<>>
  /\ providerCalls = <<>>
  /\ caught = NoValue
  /\ upsertError = NoValue
  /\ buildStatus = NoStatus
  /\ hbaResult = "none"
  /\ hbaError = NoValue

SpecStreamInit == StreamInit /\ StageIdle /\ RunIdle /\ StatusIdle /\ ServiceIdle

SpecStream == SpecStreamInit /\ [][StreamNext]_vars

SpecStageInit == StreamIdle /\ StageInit /\ RunIdle /\ StatusIdle /\ ServiceIdle

SpecStage == SpecStageInit /\ [][StageNext]_vars

SpecScenarioInit == StreamIdle /\ ScenarioInit /\ RunIdle /\ StatusIdle /\ ServiceIdle
SpecScenario == SpecScenarioInit /\ [][ScenarioNext]_vars

SpecRunInit == StreamIdle /\ StageIdle /\ RunInit /\ StatusIdle /\ ServiceIdle
SpecRun == SpecRunInit /\ [][RunNext]_vars

SpecStatusInit == StreamIdle /\ StageIdle /\ RunIdle /\ StatusInit /\ ServiceIdle
SpecStatus == SpecStatusInit /\ [][StatusNext]_vars

SpecTriggerInit ==
  /\ StreamIdle /\ StageIdle /\ RunIdle /\ ServiceIdle
  /\ statusProvider = "none"
  /\ statusCalls = <<>>
  /\ relay = RelayIdle
  /\ TriggerInit
SpecTrigger == SpecTriggerInit /\ [][TriggerNext]_vars

SpecRelayInit ==
  /\ StreamIdle /\ StageIdle /\ RunIdle /\ ServiceIdle
  /\ statusProvider = "none"
  /\ statusCalls = <<>>
  /\ trig = TriggerIdle
  /\ RelayInit
SpecRelay == SpecRelayInit /\ [][RelayNext]_vars

\* The machines of StreamIdle, StageIdle, RunIdle and StatusIdle all idle.
CoreIdle == StreamIdle /\ StageIdle /\ RunIdle /\ StatusIdle /\ TaskIdle

SpecRegistryInit ==
  /\ CoreIdle
  /\ RegistryInit
  /\ conn = ConnIdle /\ hook = HookIdle /\ batch = BatchIdle
  /\ tok = TokenIdle /\ call = CallIdle
SpecRegistry == SpecRegistryInit /\ [][RegistryNext]_vars

SpecReconnectInit ==
  /\ CoreIdle
  /\ ReconnectInit
  /\ reg = RegistryIdle /\ hook = HookIdle /\ batch = BatchIdle
  /\ tok = TokenIdle /\ call = CallIdle
SpecReconnect == SpecReconnectInit /\ [][ReconnectNext]_vars

SpecConnInit ==
  /\ CoreIdle
  /\ ConnInit
  /\ reg = RegistryIdle /\ hook = HookIdle /\ batch = BatchIdle
  /\ tok = TokenIdle /\ call = CallIdle
SpecConn == SpecConnInit /\ [][ConnNext]_vars

SpecWebhookInit ==
  /\ CoreIdle
  /\ HookInit
  /\ reg = RegistryIdle /\ conn = ConnIdle /\ batch = BatchIdle
  /\ tok = TokenIdle /\ call = CallIdle
SpecWebhook == SpecWebhookInit /\ [][HookNext]_vars

SpecBatchInit ==
  /\ CoreIdle
  /\ BatchInit
  /\ reg = RegistryIdle /\ conn = ConnIdle /\ hook = HookIdle
  /\ tok = TokenIdle /\ call = CallIdle
SpecBatch == SpecBatchInit /\ [][BatchNext]_vars

SpecTokenInit ==
  /\ CoreIdle
  /\ TokenInit
  /\ reg = RegistryIdle /\ conn = ConnIdle /\ hook = HookIdle
  /\ batch = BatchIdle /\ call = CallIdle
SpecToken == SpecTokenInit /\ [][TokenNext]_vars

SpecCallInit ==
  /\ CoreIdle
  /\ CallInit
  /\ reg = RegistryIdle /\ conn = ConnIdle /\ hook = HookIdle
  /\ batch = BatchIdle /\ tok = TokenIdle
SpecCall == SpecCallInit /\ [][CallNext]_vars

CallsIdle ==
  /\ reg = RegistryIdle /\ conn = ConnIdle /\ hook = HookIdle
  /\ batch = BatchIdle /\ tok = TokenIdle /\ call = CallIdle
BaseIdle == StreamIdle /\ StageIdle /\ RunIdle /\ StatusIdle /\ CallsIdle

SpecClassifyInit ==
  /\ BaseIdle
  /\ ClassifyInit
  /\ inbox = InboxIdle /\ fleet = FleetIdle /\ recon = ReconIdle
  /\ tasks = TasksIdle
SpecClassify == SpecClassifyInit /\ [][ClassifyNext]_vars

SpecCrashInit ==
  /\ BaseIdle
  /\ ReconInit
  /\ classify = ClassifyIdle /\ inbox = InboxIdle /\ fleet = FleetIdle
  /\ tasks = TasksIdle
SpecCrash == SpecCrashInit /\ [][CrashNext]_vars

SpecFleetInit ==
  /\ BaseIdle
  /\ FleetInit
  /\ classify = ClassifyIdle /\ inbox = InboxIdle /\ recon = ReconIdle
  /\ tasks = TasksIdle
SpecFleet == SpecFleetInit /\ [][FleetNext]_vars

SpecTasksInit ==
  /\ BaseIdle
  /\ TasksInit
  /\ classify = ClassifyIdle /\ inbox = InboxIdle /\ fleet = FleetIdle
  /\ recon = ReconIdle
SpecTasks == SpecTasksInit /\ [][TasksNext]_vars

SpecInboxInit ==
  /\ BaseIdle
  /\ InboxInit
  /\ classify = ClassifyIdle /\ fleet = FleetIdle /\ recon = ReconIdle
  /\ tasks = TasksIdle
SpecInbox == SpecInboxInit /\ [][InboxNext]_vars

(***************************************************************************)
(* Claims about streamLogs                                                 *)
(***************************************************************************)

\* C5: whenever streamLogs completes successfully, the in-order
\* concatenation of the chunks passed to onLogChunk equals the full log
\* returned by getCompleteLogs.
C5_ChunksEqualCompleteLogs ==
  streamState = "resolved" => chunks = getCompleteLogs

\* C6: streamLogs resolves exactly when the latest successful poll carried no
\* x-more-data 'true' (the resolution is part of handling that poll), and
\* after such a poll no further request is issued.
C6_ResolvesExactlyOnNoMoreData ==
  [][ /\ (streamState' = "resolved") <=> (lastMore' \in {"false", Absent})
      /\ (lastMore \in {"false", Absent}) => (pollHistory' = pollHistory) ]_vars

\* A stream that resolved after at least one poll that signalled more data.
C6_Witness ==
  /\ streamState = "resolved"
  /\ Len(pollHistory) >= 3
  /\ chunks # <<>>

RECURSIVE TrailingFails(_)
TrailingFails(h) ==
  IF h = <<>> \/ Last(h) # "fail" THEN 0
  ELSE 1 + TrailingFails(SubSeq(h, 1, Len(h) - 1))

\* C7: once 5 requests in a row have failed streamLogs has rejected with
\* 'Failed to stream logs after 5 attempts', it rejects for no other reason,
\* and the fifth failure is the last request it issued.
C7_RejectsAfterFiveFailures ==
  (TrailingFails(pollHistory) >= 5 \/ streamState = "rejected") =>
    /\ streamState = "rejected"
    /\ streamError = <<"Failed to stream logs after ", "5", " attempts">>
    /\ TrailingFails(pollHistory) = 5

\* A stream rejected by five failures in a row that follow a successful poll.
C7_Witness ==
  /\ streamState = "rejected"
  /\ Contains(pollHistory, "ok")
  /\ chunks # <<>>

(***************************************************************************)
(* Claims about the stage relay                                            *)
(***************************************************************************)

\* C1: during one run no (stage name, stage status) pair is passed to
\* updateActionRun twice, whatever snapshots the polls return and however
\* the checkStages invocations overlap.
C1_EachTransitionReportedAtMostOnce ==
  \A p \in StagePairs : stageReports[p] <= 1

\* Two invocations await the sink at once, and the stages one of them has
\* still to visit hold a transition that has been reported.
C1_Witness ==
  \E c1, c2 \in BagToSet(checks) :
    /\ c1.state = "awaitSink"
    /\ c2.state = "awaitSink"
    /\ c1 # c2 \/ CopiesIn(c1, checks) >= 2
    /\ \E n \in 1..Len(c2.rest) :
         stageReports[<<c2.rest[n].name, c2.rest[n].status>>] = 1

(***************************************************************************)
(* Claims about one action message                                         *)
(***************************************************************************)

\* The request of a sink call left the consumer / was accepted by the sink.
Sent(c) == c.outcome # "noToken"
Delivered(c) == c.outcome = "ok"

CarriesTermination(c) == c.op = "log" /\ c.term # "none"

IsTerminalLabel(c) == c.op = "update" /\ Head(c.msg) = "Build "

AllDelivered == \A i \in DOMAIN sinkCalls : Delivered(sinkCalls[i])

\* The sink calls handleBuildAction and createEntity have made, while the
\* caller has not yet acted on the handler's outcome.
HandlerCalls == SubSeq(sinkCalls, 3, Len(sinkCalls))

\* C2: for one action message at most one addActionRunLog call that carries
\* a terminationStatus is accepted by the sink, counting the calls of
\* processActionMessage, handleBuildAction and createEntity.
C2_AtMostOneTermination ==
  Cardinality({i \in DOMAIN sinkCalls :
                 CarriesTermination(sinkCalls[i]) /\ Delivered(sinkCalls[i])}) <= 1

\* C3: after the sink has accepted an addActionRunLog call that carries a
\* terminationStatus, no updateActionRun or addActionRunLog request is sent
\* for the run.
C3_NothingAfterTermination ==
  \A i, j \in DOMAIN sinkCalls :
    (i < j /\ CarriesTermination(sinkCalls[i]) /\ Delivered(sinkCalls[i]))
      => ~Sent(sinkCalls[j])

\* C4: the terminal 'Build <result> (<duration>s)' status label is sent only
\* after a getBuildStatus call has returned building = false.
C4_TerminalLabelOnlyAfterNotBuilding ==
  (\E i \in DOMAIN sinkCalls :
      IsTerminalLabel(sinkCalls[i]) /\ Sent(sinkCalls[i]))
    => \E k \in DOMAIN providerCalls :
         /\ providerCalls[k].op = "getBuildStatus"
         /\ providerCalls[k].ok
         /\ providerCalls[k].building = "false"

\* C8: when the final status is success and the entity upsert request fails
\* (with an Error or with a value that is not an Error) while every sink
\* call succeeds, handleBuildAction does not reject and no log with a
\* FAILURE terminationStatus is sent.
C8_UpsertFailureKeepsSuccess ==
  (upsertError # NoValue /\ buildStatus.status = "success" /\ AllDelivered)
    => /\ hbaResult # "rejected"
       /\ \A i \in DOMAIN sinkCalls : sinkCalls[i].term # "FAILURE"

\* C9, as stated: whenever handleBuildAction has rejected, a log
\* 'Build failed: <message of the rejection>' was sent to the sink before.
C9_FailureLogBeforeEveryRejection ==
  (pc = "P_catch" /\ hbaResult = "rejected") =>
    \E i \in DOMAIN HandlerCalls :
      /\ HandlerCalls[i].op = "log"
      /\ Sent(HandlerCalls[i])
      /\ Head(HandlerCalls[i].msg) = "Build failed: "
      /\ Tail(HandlerCalls[i].msg) = ErrorMsg(hbaError)

\* C9, amended: when handleBuildAction rejects, either (a) the provider is
\* not registered, the rejection is the unknown-provider error and the
\* handler has called neither the sink nor the provider; or (b) the
\* rejection is the failure of the handler's last sink call, which is one of
\* the five logs ahead of the try block or the 'Build failed' log itself; or
\* (c) the handler's last sink call is an accepted log
\* 'Build failed: <message of the rejection>' without terminationStatus.
C9_FailureLogBeforeRejectionFromTry ==
  (pc = "P_catch" /\ hbaResult = "rejected") =>
    \/ /\ ~Contains(registry, provider)
       /\ hbaError = UnknownProviderError(provider)
       /\ HandlerCalls = <<>>
       /\ providerCalls = <<>>
    \/ /\ Contains(registry, provider)
       /\ HandlerCalls # <<>>
       /\ ~Delivered(Last(HandlerCalls))
       /\ hbaError = SinkFailure(Last(HandlerCalls).outcome)
       /\ \/ \E n \in 1..5 : Last(HandlerCalls).msg = PreambleLogs[n]
          \/ Head(Last(HandlerCalls).msg) = "Build failed: "
    \/ /\ Contains(registry, provider)
       /\ HandlerCalls # <<>>
       /\ Last(HandlerCalls) =
            [op |-> "log", term |-> "none", outcome |-> "ok", link |-> <<>>,
             msg |-> <<"Build failed: ">> \o ErrorMsg(hbaError)]

\* handleBuildAction has rejected with the stream's exhaustion after the sink
\* accepted the failure log that carries its message.
C9_Witness ==
  /\ pc = "P_catch"
  /\ hbaResult = "rejected"
  /\ hbaError = StreamError
  /\ Delivered(Last(sinkCalls))
  /\ Last(sinkCalls).msg = <<"Build failed: ">> \o StreamFailedMessage

\* C10: when the resolved provider name is not registered, handleBuildAction
\* rejects before any other step: no provider operation is ever called, the
\* handler makes no sink call (the sink call that follows the caller's two
\* opening calls is its report of the rejection), and the message names the
\* requested provider and every registered provider name.
C10_UnknownProviderFailsImmediately ==
  ~Contains(registry, provider) =>
    /\ providerCalls = <<>>
    /\ hbaResult # "resolved"
    /\ (/\ actionKind = "build"
        /\ Len(sinkCalls) >= 3
        /\ Delivered(sinkCalls[1])
        /\ Delivered(sinkCalls[2])) =>
         /\ hbaResult = "rejected"
         /\ sinkCalls[3].msg = <<"Action failed: ">> \o hbaError.message
    /\ hbaResult = "rejected" =>
         /\ hbaError.kind = "Error"
         /\ hbaError.message[2] = provider
         /\ \A n \in 1..Len(registry) : Contains(hbaError.message, registry[n])

\* Provider 'x' was requested with two other providers registered, and the
\* caller has reported the rejection.
C10_Witness ==
  /\ provider = "x"
  /\ registry = <<"jenkins", "circleci">>
  /\ hbaResult = "rejected"
  /\ pc = "P_done"
  /\ Len(sinkCalls) = 3

TriggerRejected ==
  \E k \in DOMAIN providerCalls :
    providerCalls[k].op = "triggerBuild" /\ ~providerCalls[k].ok

InProgressLabel == <<"Build #", "N", " in progress">>

\* C11: when triggerBuild has rejected, the handler calls no other provider
\* operation and sends no in-progress link update; its next and last sink
\* call is the failure log 'Build failed: <trigger error>', after which it
\* rejects with the trigger error unless that log itself failed.
C11_TriggerFailureStops ==
  TriggerRejected =>
    /\ Len(providerCalls) = 1
    /\ \A i \in DOMAIN sinkCalls : sinkCalls[i].msg # InProgressLabel
    /\ pc \in {"H_catch", "H_reject", "P_catch", "P_done", "P_rejected"}
    /\ pc # "H_catch" =>
         /\ Len(HandlerCalls) >= 7
         /\ HandlerCalls[7].op = "log"
         /\ HandlerCalls[7].term = "none"
         /\ HandlerCalls[7].msg = <<"Build failed: ">> \o TriggerError(provider).message
         /\ HandlerCalls[6].msg = <<"Triggering build...">>
         /\ pc = "P_catch" => /\ hbaResult = "rejected"
                              /\ Len(HandlerCalls) = 7
                              /\ Delivered(HandlerCalls[7]) => hbaError = TriggerError(provider)

\* The trigger was rejected, the failure log was accepted and the handler has
\* rejected with the trigger error.
C11_Witness ==
  /\ TriggerRejected
  /\ pc = "P_catch"
  /\ hbaError = TriggerError(provider)
  /\ Delivered(Last(sinkCalls))

TriggerResolved ==
  \E k \in DOMAIN providerCalls :
    providerCalls[k].op = "triggerBuild" /\ providerCalls[k].ok

\* C19: streamLogs or getBuildStatus is called only after the sink has
\* accepted the updateActionRun call with link = [buildUrl] and status label
\* 'Build #N in progress', which the handler sends after triggerBuild has
\* resolved; until that update only the 'Build #N started' log follows the
\* trigger.
C19_InProgressBeforePolling ==
  /\ (\E k \in DOMAIN providerCalls :
        providerCalls[k].op \in {"streamLogs", "getBuildStatus"})
       => \E i \in DOMAIN HandlerCalls :
            /\ HandlerCalls[i].op = "update"
            /\ HandlerCalls[i].msg = <<"Build #", "N", " in progress">>
            /\ HandlerCalls[i].link = <<"buildUrl">>
            /\ Delivered(HandlerCalls[i])
            /\ i = 8
  /\ (TriggerResolved /\ Len(HandlerCalls) >= 8 /\ Delivered(HandlerCalls[7])) =>
       /\ HandlerCalls[7].msg = <<"Build #", "N", " started">>
       /\ HandlerCalls[8].op = "update"
       /\ HandlerCalls[8].link = <<"buildUrl">>
       /\ HandlerCalls[8].msg = <<"Build #", "N", " in progress">>

\* The in-progress update was accepted and streamLogs has been called.
C19_Witness ==
  /\ pc = "H_stream"
  /\ Len(providerCalls) = 2
  /\ Delivered(Last(sinkCalls))

(***************************************************************************)
(* Further claims about the stage relay                                    *)
(***************************************************************************)

\* C12: when an updateActionRun call of the orchestration rejects, here the
\* stage status-label update awaited by checkStages, the orchestration halts
\* with a rejection: the relay is left (relayPc "rejected") and no
\* invocation of checkStages goes on.
C12_UpdateFailureHalts ==
  [][StageUpdateFail => (relayPc' = "rejected" /\ checks' = EmptyBag)]_vars

TotalStageReports ==
  LET RECURSIVE Sum(_)
      Sum(S) == IF S = {} THEN 0
                ELSE LET p == CHOOSE q \in S : TRUE IN stageReports[p] + Sum(S \ {p})
  IN Sum(StagePairs)

RelayQuiet == checks = EmptyBag \/ \A c \in BagToSet(checks) : c.state = "fetching"

\* C13: when the polls observe [Build:SUCCESS], then
\* [Build:SUCCESS, Deploy:IN_PROGRESS], then [Build:SUCCESS, Deploy:SUCCESS]
\* and the sink calls succeed, the relay never sends more than 3 stage
\* updates, and once the three polls are handled it has sent exactly one for
\* each of Build/SUCCESS, Deploy/IN_PROGRESS and Deploy/SUCCESS.
C13_ScenarioBThreeReports ==
  scenario.snapshots = ScenarioB =>
    /\ TotalStageReports <= 3
    /\ (scenario.polled = 3 /\ RelayQuiet) =>
         /\ TotalStageReports = 3
         /\ stageReports[<<"Build", "SUCCESS">>] = 1
         /\ stageReports[<<"Deploy", "IN_PROGRESS">>] = 1
         /\ stageReports[<<"Deploy", "SUCCESS">>] = 1

\* The three snapshots of the scenario were observed by three invocations
\* and every update has returned.
C13_Witness ==
  /\ scenario = [snapshots |-> ScenarioB, polled |-> 3]
  /\ started = 3
  /\ checks = EmptyBag
  /\ TotalStageReports = 3

\* The (name, status) pairs of the snapshots the script has returned so far.
PairsOf(snapshot) == {<<snapshot[i].name, snapshot[i].status>> : i \in DOMAIN snapshot}

Observed == UNION {PairsOf(scenario.snapshots[k]) : k \in 1..scenario.polled}

C15_ClassificationByResult ==
  (buildStatus # NoStatus /\ provider = "jenkins" /\ buildStatus.building = "false") =>
    buildStatus.status =
      CASE buildStatus.result = "ABORTED" -> "cancelled"
        [] buildStatus.result = "SUCCESS" -> "success"
        [] buildStatus.result = "FAILURE" -> "failure"
        [] OTHER -> "pending"

\* A finished Jenkins build with a result getBuildStatus does not know was
\* classified.
C15_Witness ==
  /\ provider = "jenkins"
  /\ buildStatus.building = "false"
  /\ buildStatus.result = "UNSTABLE"
  /\ buildStatus.status = "pending"

TerminalStatuses == {"success", "failure", "cancelled"}

\* C16: once a getBuildStatus call has returned success, failure or
\* cancelled, no later call for the same buildId returns running.
C16_NoRunningAfterTerminal ==
  \A i, j \in DOMAIN statusCalls :
    (i < j /\ statusCalls[i].status \in TerminalStatuses)
      => statusCalls[j].status # "running"

\* C17: JenkinsProvider.triggerBuild posts to 'build', without parameters,
\* exactly when the parameter map is empty and to 'buildWithParameters' with
\* the map otherwise; a resolved call returns as buildId the decimal string
\* of lastBuild.number.
C17_EndpointAndBuildId ==
  (trig.provider = "jenkins" /\ trig.requests # <<>>) =>
    /\ (trig.requests[1].endpoint = "build") <=> (trig.parameters = <<>>)
    /\ (trig.requests[1].endpoint = "buildWithParameters") <=> (trig.parameters # <<>>)
    /\ trig.requests[1].params = trig.parameters
    /\ trig.pc = "resolved" =>
         /\ parseInt(trig.buildInfo.buildId) = trig.remote.number
         /\ trig.buildInfo.buildNumber = trig.remote.number
         /\ \A k \in DOMAIN trig.buildInfo.buildId : Contains(Digits, trig.buildInfo.buildId[k])
         /\ Len(trig.buildInfo.buildId) = IF trig.remote.number >= 10 THEN 2 ELSE 1

\* A call without parameters resolved to a build number of two digits.
C17_Witness ==
  /\ trig.provider = "jenkins"
  /\ trig.parameters = <<>>
  /\ trig.pc = "resolved"
  /\ trig.buildInfo.buildId = <<"1", "0">>

\* C18: a triggerBuild call that resolves returns a BuildInfo whose buildId
\* is not empty, and it resolves only when the remote yielded an identifier:
\* a lastBuild number for Jenkins, a first workflow for CircleCI.  Without
\* one the call rejects and returns no BuildInfo.
C18_BuildIdOrReject ==
  /\ trig.pc = "resolved" =>
       /\ trig.buildInfo.buildId # <<>>
       /\ trig.error = <<>>
       /\ IF trig.provider = "jenkins"
            THEN trig.remote.present /\ trig.remote.number > 0
            ELSE trig.remote # <<>> /\ trig.buildInfo.buildId = <<trig.remote[1]>>
  /\ trig.pc = "rejected" =>
       /\ trig.buildInfo = NoBuildInfo
       /\ trig.error # <<>>
  /\ trig.pc \in {"post", "get"} => trig.buildInfo = NoBuildInfo

\* The job document held no lastBuild and the call rejected.
C18_Witness ==
  /\ trig.provider = "jenkins"
  /\ trig.pc = "rejected"
  /\ Len(trig.requests) = 2
  /\ trig.error = <<"Failed to trigger Jenkins build: ",
                    "No build number returned from Jenkins">>

(***************************************************************************)
(* Claims about the log relay                                              *)
(***************************************************************************)

\* C20: when the relay has finished and no sink call has failed, the
\* in-order concatenation of the log messages sent to the sink equals the
\* in-order concatenation of the chunks streamLogs delivered.
C20_SentEqualsDelivered ==
  (relay.pc = "done" /\ ~relay.failed) => relay.sent = relay.delivered


(***************************************************************************)
(* Claims about the plugin registry                                        *)
(***************************************************************************)
\* C21: when validateConfig throws during register, the registry map is
\* left exactly as it was before the call: every lookup (getProvider,
\* hasProvider, getProviderNames) answers as before, the instance that
\* failed is not retrievable under any name, and a provider registered
\* earlier under the same name is still the one returned.
C21_FailedRegisterLeavesRegistry ==
  reg.outcome = "threw" =>
    /\ reg.providers = reg.before
    /\ providerKeys(reg.providers) = providerKeys(reg.before)
    /\ \A n \in ProviderKinds :
         /\ hasProvider(reg.providers, n) = hasProvider(reg.before, n)
         /\ getProvider(reg.providers, n) = getProvider(reg.before, n)
         /\ getProvider(reg.providers, n) # reg.calls

\* A register call threw for a name that was already registered, and the
\* earlier instance is still there.
C21_Witness ==
  /\ reg.outcome = "threw"
  /\ hasProvider(reg.before, reg.name)
  /\ getProvider(reg.providers, reg.name) = getProvider(reg.before, reg.name)
  /\ Len(reg.providers) = Cardinality(ProviderKinds)

(***************************************************************************)
(* Claims about the consumer connection                                    *)
(***************************************************************************)
\* The attempts of the reconnect call that have failed so far.
FailedAttempts == Cardinality({i \in 1..Len(conn.attempts) : conn.attempts[i] = "fail"})

\* C22: reconnect(retries, delay) makes at most `retries` attempts; the
\* wait after the k-th failed attempt is delay * k, so the waits increase;
\* only the last attempt made can be a success, and the call returns
\* exactly then; the loop never ends without a success unless every one of
\* the `retries` attempts failed, and then the process has exited with
\* code 1 (the exit replaces the wait after the last failure).
C22_BoundedReconnect ==
  conn.rc # "idle" =>
    /\ Len(conn.attempts) <= conn.retries
    /\ conn.attempt <= conn.retries
    /\ \A k \in 1..Len(conn.waits) :
         /\ conn.waits[k] = conn.delay * k
         /\ k > 1 => conn.waits[k] > conn.waits[k - 1]
    /\ \A i \in 1..Len(conn.attempts) :
         conn.attempts[i] = "ok" => i = Len(conn.attempts)
    /\ (conn.rc = "returned") <=>
         (conn.attempts # <<>> /\ Last(conn.attempts) = "ok")
    /\ Len(conn.waits) = IF conn.rc = "exited" THEN FailedAttempts - 1
                         ELSE FailedAttempts
    /\ conn.rc # "fellThrough"
    /\ (conn.exit = "1") <=> (conn.rc = "exited")
    /\ (FailedAttempts = conn.retries) <=> (conn.rc = "exited")

\* The default number of attempts all failed, with their four waits, and
\* the process exited.
C22_Witness ==
  /\ conn.rc = "exited"
  /\ conn.retries = DefaultRetries
  /\ Len(conn.attempts) = DefaultRetries
  /\ Len(conn.waits) = DefaultRetries - 1
  /\ conn.exit = "1"

\* C23: once shutdown() has returned, the consumer is not connected and
\* consuming, whichever start() call (direct, made by a reconnect, or in
\* progress when shutdown was called) is involved.
C23_NoConsumingAfterShutdown ==
  conn.shutdown = "returned" => ~(conn.linked /\ conn.consuming)

(***************************************************************************)
(* Claims about webhook validation                                         *)
(***************************************************************************)
\* A webhook secret is configured for the provider.
SecretConfigured == hook.kind = "circleci" /\ hook.secret \notin {Absent, ""}

\* C24: validateWebhook always returns a boolean (it never throws); it
\* returns true for a provider with no webhook secret configured; with a
\* secret configured it returns true exactly when the signature header
\* equals the HMAC-SHA256 of the payload under that secret, and false when
\* the header is missing or differs.
C24_WebhookSignatureChecked ==
  hook.result \notin {"idle", "none"} =>
    /\ hook.result \in {"true", "false"}
    /\ ~SecretConfigured => hook.result = "true"
    /\ SecretConfigured =>
         ((hook.result = "true") <=>
            (hook.signature = HmacSha256(hook.secret, hook.payload)))
    /\ (SecretConfigured /\ hook.signature = NoSignature) => hook.result = "false"

\* A request signed with another secret was refused.
C24_Witness ==
  /\ SecretConfigured
  /\ hook.signature # NoSignature /\ hook.signature # <<>>
  /\ hook.signature # HmacSha256(hook.secret, hook.payload)
  /\ hook.signature[3] = hook.payload
  /\ hook.result = "false"

(***************************************************************************)
(* Claims about the batch-log provider                                     *)
(***************************************************************************)
\* The jobs whose iteration is over.
JobsDone == IF batch.pc = "resolved" THEN Len(batch.jobs)
            ELSE IF batch.pc = "job" THEN batch.i - 1
            ELSE 0

Refreshers == {c \in CallIds : tok.calls[c].refreshed}

\* No auth request is in flight.
NoRefreshInFlight == \A c \in CallIds : tok.calls[c].pc # "waiting"

\* C26: with any number of overlapping getAccessToken calls on an empty
\* or expired cache, every call that has returned holds a token the auth
\* endpoint issued (never the expired one, never none), and once no
\* refresh is in flight and some call has refreshed, the cache holds the
\* token issued to one of the refreshing calls, with the expiry written by
\* that same call.
C26_RefreshRaceConverges ==
  tok.calls # <<>> =>
    /\ \A c \in CallIds :
         tok.calls[c].pc = "returned" =>
           /\ tok.calls[c].result \in tok.issued
           /\ tok.calls[c].result # tok.stale
    /\ (NoRefreshInFlight /\ Refreshers # {}) =>
         /\ tok.cache.accessToken \in tok.issued \ {tok.stale}
         /\ tok.cache.tokenBy \in Refreshers
         /\ tok.cache.accessToken = tok.calls[tok.cache.tokenBy].result
         /\ tok.cache.expiryBy = tok.cache.tokenBy

\* Two calls both found the cache expired, both refreshed, and both
\* refreshes have completed; a third call was served from the cache.
C26_Witness ==
  /\ tok.calls # <<>>
  /\ tok.stale # NoToken
  /\ Cardinality(Refreshers) = 2
  /\ NoRefreshInFlight
  /\ \E c \in CallIds : tok.calls[c].pc = "returned" /\ ~tok.calls[c].refreshed

(***************************************************************************)
(* Further claims about one action message                                 *)
(***************************************************************************)
\* The text of the log contains 'Failed to create entity'.
MentionsEntityFailure(c) ==
  /\ c.op = "log"
  /\ Head(c.msg) \in {"Failed to create entity: ", "Warning: Failed to create entity: "}

\* C27: when the entity upsert fails with a plain string and every sink
\* call succeeds, handleBuildAction resolves and exactly one log containing
\* 'Failed to create entity' has been sent for the run, with the WARNING
\* termination status.
C27_StringUpsertFailureOneWarning ==
  (upsertError.kind = "string" /\ AllDelivered /\ hbaResult = "resolved") =>
    /\ Cardinality({i \in DOMAIN sinkCalls : MentionsEntityFailure(sinkCalls[i])}) = 1
    /\ \A i \in DOMAIN sinkCalls :
         MentionsEntityFailure(sinkCalls[i]) => sinkCalls[i].term = "WARNING"

\* C28: the parameter map passed to triggerBuild carries PORT_RUN_ID equal
\* to the runId of the message, whatever the message properties are, and
\* every other property of the message under its own key.
C28_RunIdAlwaysInjected ==
  call.pc = "called" =>
    /\ call.parameters["PORT_RUN_ID"] = call.runId
    /\ \A k \in PropKeys \ {"PORT_RUN_ID"} : call.parameters[k] = call.props[k]

\* The name the claim says is looked up: the first of props.provider and
\* props.ci_provider that is present, else 'jenkins'.
FirstPresentName(p) ==
  IF p.provider # Absent THEN p.provider
  ELSE IF p.ci_provider # Absent THEN p.ci_provider
  ELSE "jenkins"

\* C29: the provider handleBuildAction looks up is props.provider when
\* that property is present, otherwise props.ci_provider when present,
\* otherwise 'jenkins'.  The name looked up is the one in the 'Starting
\* build using <name>...' log when the lookup succeeded and the one in the
\* error when it failed.
C29_PresentProviderWins ==
  /\ \A i \in DOMAIN sinkCalls :
       (sinkCalls[i].msg # <<>> /\ Head(sinkCalls[i].msg) = "Starting build using ")
         => sinkCalls[i].msg[2] = FirstPresentName(props)
  /\ (hbaResult = "rejected" /\ Len(hbaError.message) >= 2
        /\ hbaError.message[1] = "CI/CD provider '")
       => hbaError.message[2] = FirstPresentName(props)

\* The final getBuildStatus call returned a status.
FinalStatusKnown == buildStatus # NoStatus

IsPoll == pollHistory' # pollHistory

\* C32: the offset starts at 0; a successful poll whose response reports a
\* size (x-text-size) sets the offset to that size and the next request is
\* issued there; no other step changes the offset (a response without the
\* header reports no size and leaves it).
C32_OffsetFollowsReportedSize ==
  /\ start = 0
  /\ [][ /\ IF pollHistory' = Append(pollHistory, "ok") /\ lastPoll'.size # NoHeader
              THEN start' = parseInt(lastPoll'.size)
              ELSE start' = start
         /\ (IsPoll /\ pollHistory # <<>> /\ Last(pollHistory) = "ok"
                    /\ lastPoll.size # NoHeader)
              => lastPoll'.start = parseInt(lastPoll.size) ]_vars

\* Two successful polls in a row, the second requested at the size the first
\* reported and itself reporting a larger one.
C32_Witness ==
  /\ Len(pollHistory) >= 2
  /\ pollHistory[Len(pollHistory) - 1] = "ok"
  /\ Last(pollHistory) = "ok"
  /\ lastPoll.start > 0
  /\ lastPoll.size # NoHeader
  /\ start = parseInt(lastPoll.size)
  /\ start > lastPoll.start

\* C33: a failed poll that leaves the consecutive-error counter below 5
\* changes neither the offset nor what onChunk has received and keeps the
\* stream polling; the request that follows a failed one asks for the same
\* offset.
C33_FailedPollRetriesSameOffset ==
  [][ /\ (pollHistory' = Append(pollHistory, "fail")
            /\ consecutiveErrors' < maxConsecutiveErrors)
          => /\ start' = start
             /\ chunks' = chunks
             /\ streamState' = "polling"
             /\ isBuilding'
      /\ (IsPoll /\ pollHistory # <<>> /\ Last(pollHistory) = "fail")
          => lastPoll'.start = lastPoll.start ]_vars

\* A request that failed at a non-zero offset was followed by a successful
\* one at that offset, with log text still to fetch there.
C33_Witness ==
  /\ Len(pollHistory) >= 3
  /\ pollHistory[Len(pollHistory) - 1] = "fail"
  /\ Last(pollHistory) = "ok"
  /\ lastPoll.start > 0
  /\ lastPoll.start < Len(remoteLog)
  /\ chunks # <<>>

\* C34: the consecutive-error counter is the number of failed polls since
\* the last successful one (0 right after a success), and the stream is
\* rejected exactly when that number has reached 5: failures separated by
\* successes never abort it, however many there are.
C34_OnlyFiveInARowAbort ==
  /\ consecutiveErrors = TrailingFails(pollHistory)
  /\ (pollHistory # <<>> /\ Last(pollHistory) = "ok") => consecutiveErrors = 0
  /\ (streamState = "rejected") <=> (TrailingFails(pollHistory) = maxConsecutiveErrors)

\* Five failed polls or more in all, a success among them, and no abort.
C34_Witness ==
  /\ Cardinality({i \in 1..Len(pollHistory) : pollHistory[i] = "fail"}) >= maxConsecutiveErrors
  /\ Contains(pollHistory, "ok")
  /\ streamState = "polling"

(***************************************************************************)
(* Stage relay: the end of the run.                                        *)
(***************************************************************************)
\* C35: once the terminal 'Build <result> (<duration>s)' status label has
\* been reported for the run, no stage status-label update is sent, not even
\* by a checkStages invocation that was in flight when the timer was cleared.
C35_NoStageUpdateAfterTerminal ==
  [][relayPc = "terminal" => stageReports' = stageReports]_vars

\* C39: when the run has ended and every checkStages invocation has
\* returned, each (stage name, status) transition with a non-sentinel status
\* that a polled snapshot showed has been accepted by the sink.
C39_PolledTransitionsDelivered ==
  (relayPc = "terminal" /\ checks = EmptyBag)
    => \A p \in stageLog.polled : p \in stageLog.accepted

(***************************************************************************)
(* The two classifications of a finished Jenkins build.                    *)
(***************************************************************************)
\* C38: for every result code of a finished build, the status getBuildStatus
\* returns equals the status parseWebhookPayload and normalizeBuildData
\* produce for the same code.
C38_SameStatusOnEveryPath ==
  classify.polled # NotClassified =>
    /\ classify.parsed # NotClassified => classify.parsed = classify.polled
    /\ classify.normalized # NotClassified => classify.normalized = classify.polled

(***************************************************************************)
(* Overlapping reconnect sequences.                                        *)
(***************************************************************************)
\* C37: at most one reconnect sequence is in progress at any time, and the
\* reconnection attempts made since the connection was last restored never
\* exceed `retries`, whatever CRASH events arrive in the meantime.
C37_OneReconnectSequence ==
  /\ Cardinality(InProgress) <= 1
  /\ recon.attempts <= DefaultRetries

(***************************************************************************)
(* Concurrent triggerBuild calls.                                          *)
(***************************************************************************)
Resolved == {c \in Callers : fleet.calls[c].pc = "resolved"}

\* C36: the buildId a triggerBuild call returns is the number of the build
\* the remote started for that call's own trigger request, so no two calls
\* return the same buildId.
C36_BuildIdIsOwnBuild ==
  /\ \A c \in Resolved :
       fleet.builds[fleet.calls[c].buildInfo.buildNumber] = c
  /\ \A c, d \in Resolved :
       c # d => fleet.calls[c].buildInfo.buildId # fleet.calls[d].buildInfo.buildId

(***************************************************************************)
(* The webhook server's monitoring tasks.                                  *)
(***************************************************************************)
\* C40: for every (provider, buildId) key at most one monitoring task is
\* running, the key is in activeTasks exactly while its task runs (so it is
\* removed when the task ends, by success or by failure), and no stream is
\* started for a key while it is in activeTasks.
C40_OneMonitorPerKey ==
  /\ [](\A k \in TaskKeys :
          /\ MonitorCount(k) <= 1
          /\ (k \in tasks.activeTasks) <=> (MonitorCount(k) = 1))
  /\ [][\A k \in TaskKeys :
          k \in tasks.activeTasks => tasks'.started[k] = tasks.started[k]]_vars

\* A key was monitored, its task ended, and a later webhook for the same key
\* started monitoring again; three webhooks have been received.
C40_Witness ==
  \E k \in TaskKeys :
    /\ tasks.started[k] = 2
    /\ MonitorCount(k) = 1
    /\ k \in tasks.activeTasks
    /\ tasks.webhooks = 3

(***************************************************************************)
(* Failures while a message is processed.                                  *)
(***************************************************************************)
\* C31: no failure met while a message is processed becomes an unhandled
\* promise rejection or stops the consumer, and every message whose
\* processing met a failure and whose handler has returned was marked failed
\* (reported to the sink as failed, or logged by eachMessage's catch block).
C31_FailuresStayInsideHandler ==
  /\ inbox.unhandled = 0
  /\ inbox.exit # "shutdown"
  /\ \A i \in 1..Len(inbox.outcomes) :
       i \in inbox.failed => inbox.outcomes[i] \in {"reported", "logged"}
=============================================================================